---- MODULE Spec2Model ----
(***************************************************************************)
(* Kernel server (apps/kernel-server): the dynamic DAG scheduler, the      *)
(* per-run state record, the pattern engine and the operator handlers,     *)
(* modelled for one run.  Every lock acquisition of the source is one      *)
(* atomic step; a write to the run state carries the persist_state call    *)
(* that follows it in the same function.                                   *)
(***************************************************************************)
EXTENDS Integers, Sequences, FiniteSets, TLC

VARIABLES
    redis_client,      \* RARORuntime.redis_client: TRUE = Some(client)
    patterns,          \* PatternRegistry.patterns (immutable after boot)
    workflows,         \* DashMap workflow_id -> WorkflowConfig
    runtime_states,    \* DashMap run_id -> RuntimeState
    dag_store,         \* DashMap run_id -> DAG
    held_refs,         \* tasks parked on get_mut while holding a Ref of runtime_states
    loops,             \* the spawned execute_dynamic_dag tasks: position and locals
    events,            \* everything sent on event_bus, in order
    rx,                \* the pattern engine's receiver: events consumed so far
    todo,              \* the pattern engine's matched patterns not yet executed
    kv_state,          \* Redis: run:{id}:state
    kv_active,         \* Redis: sys:active_runs
    kv_artifacts,      \* Redis: run:{id}:agent:{agent}:output
    resume_pc,         \* resume_run: "checked" between its checks and its write, else its last answer
    stops,             \* number of stop requests served
    crashes,           \* number of kernel restarts
    uuid,              \* Uuid::new_v4 draws used for renamed ids
    replies_usable,    \* history: every worker reply so far was a success with usable text
    invoked,           \* history: the node ids handed to invoke_remote_agent so far
    graph,             \* a DAG value driven through the methods of dag.rs alone
    graph_call,        \* the last method call made on graph, with what it returned
    thought_signatures,\* DashMap run_id -> ThoughtSignatureStore: the run ids that have a store
    start_reply,       \* the last answer of POST /runtime/start: config id and status code
    cleanups           \* history: the calls of trigger_remote_cleanup made so far

vars == <<redis_client, patterns, workflows, runtime_states, dag_store, held_refs,
          loops, events, rx, todo, kv_state, kv_active, kv_artifacts, resume_pc,
          stops, crashes, uuid, replies_usable, invoked, graph, graph_call,
          thought_signatures, start_reply, cleanups>>

-----------------------------------------------------------------------------
(* Bounds of the model *)

MaxLoops == 2
MaxStops == 1
MaxCrashes == 1
MaxBatch == 2        \* nodes in one delegation request
MaxNodes == 3        \* node ids the methods of a DAG are called with

-----------------------------------------------------------------------------
(* Strings *)

StartsWith(s, p) == Len(s) >= Len(p) /\ SubSeq(s, 1, Len(p)) = p

Contains(s, sub) ==
    \E i \in 1..(Len(s) - Len(sub) + 1) : SubSeq(s, i, i + Len(sub) - 1) = sub

(* Sequences used as Vec<String> *)

Range(seq) == {seq[i] : i \in DOMAIN seq}

VecContains(seq, x) == x \in Range(seq)

RECURSIVE Retain(_, _)
Retain(seq, x) ==
    IF seq = <<>> THEN <<>>
    ELSE IF Head(seq) = x THEN Retain(Tail(seq), x)
    ELSE <<Head(seq)>> \o Retain(Tail(seq), x)

RECURSIVE Perms(_)
Perms(S) ==
    IF S = {} THEN {<<>>}
    ELSE UNION {{<<x>> \o p : p \in Perms(S \ {x})} : x \in S}

-----------------------------------------------------------------------------
(* dag.rs *)

DagNew == [nodes |-> {}, edges |-> <<>>]

\* edges.get(n).cloned().unwrap_or_default()
get_children(dag, n) == IF n \in DOMAIN dag.edges THEN dag.edges[n] ELSE <<>>

add_node(dag, n) == [dag EXCEPT !.nodes = @ \cup {n}]

\* DFS from current looking for target; visited is threaded through the calls.
RECURSIVE has_path_dfs(_, _, _, _)
RECURSIVE dfs_neighbors(_, _, _, _)
has_path_dfs(dag, current, target, visited) ==
    IF current = target THEN [found |-> TRUE, visited |-> visited]
    ELSE IF current \in visited THEN [found |-> FALSE, visited |-> visited]
    ELSE dfs_neighbors(dag, get_children(dag, current), target, visited \cup {current})

dfs_neighbors(dag, neighbors, target, visited) ==
    IF neighbors = <<>> THEN [found |-> FALSE, visited |-> visited]
    ELSE LET r == has_path_dfs(dag, Head(neighbors), target, visited)
         IN  IF r.found THEN r
             ELSE dfs_neighbors(dag, Tail(neighbors), target, r.visited)

\* a cycle check that only sees the self-loop
would_create_cycle_SelfOnly(dag, from, to) == from = to

would_create_cycle(dag, from, to) == has_path_dfs(dag, to, from, {}).found

SetEdges(dag, from, targets) ==
    [dag EXCEPT !.edges =
        [k \in (DOMAIN dag.edges) \cup {from} |->
            IF k = from THEN targets ELSE dag.edges[k]]]

\* add_edge without its idempotency check
add_edge_NoIdempotency(dag, from, to) ==
    IF from \notin dag.nodes THEN [res |-> "InvalidNode", dag |-> dag]
    ELSE IF to \notin dag.nodes THEN [res |-> "InvalidNode", dag |-> dag]
    ELSE IF would_create_cycle(dag, from, to) THEN [res |-> "CycleDetected", dag |-> dag]
    ELSE [res |-> "Ok", dag |-> SetEdges(dag, from, Append(get_children(dag, from), to))]

\* add_edge without the call of would_create_cycle
add_edge_NoCycleCheck(dag, from, to) ==
    IF from \notin dag.nodes THEN [res |-> "InvalidNode", dag |-> dag]
    ELSE IF to \notin dag.nodes THEN [res |-> "InvalidNode", dag |-> dag]
    ELSE IF VecContains(get_children(dag, from), to) THEN [res |-> "Ok", dag |-> dag]
    ELSE [res |-> "Ok", dag |-> SetEdges(dag, from, Append(get_children(dag, from), to))]

add_edge(dag, from, to) ==
    IF from \notin dag.nodes THEN [res |-> "InvalidNode", dag |-> dag]
    ELSE IF to \notin dag.nodes THEN [res |-> "InvalidNode", dag |-> dag]
    ELSE IF VecContains(get_children(dag, from), to) THEN [res |-> "Ok", dag |-> dag]
    ELSE IF would_create_cycle(dag, from, to) THEN [res |-> "CycleDetected", dag |-> dag]
    ELSE [res |-> "Ok", dag |-> SetEdges(dag, from, Append(get_children(dag, from), to))]

RECURSIVE RemoveFirst(_, _)
RemoveFirst(seq, x) ==
    IF seq = <<>> THEN <<>>
    ELSE IF Head(seq) = x THEN Tail(seq)
    ELSE <<Head(seq)>> \o RemoveFirst(Tail(seq), x)

remove_edge(dag, from, to) ==
    IF from \in DOMAIN dag.edges /\ VecContains(dag.edges[from], to)
    THEN [res |-> "Ok", dag |-> SetEdges(dag, from, RemoveFirst(dag.edges[from], to))]
    ELSE [res |-> "EdgeNotFound", dag |-> dag]

\* a clear that empties the adjacency list of the node itself
clear_incoming_edges_Outgoing(dag, n) ==
    [dag EXCEPT !.edges = [k \in DOMAIN dag.edges |-> IF k = n THEN <<>> ELSE dag.edges[k]]]

clear_incoming_edges(dag, n) ==
    [dag EXCEPT !.edges = [k \in DOMAIN dag.edges |-> Retain(dag.edges[k], n)]]

get_dependencies(dag, n) ==
    {s \in DOMAIN dag.edges : VecContains(dag.edges[s], n)}

export_nodes(dag) == dag.nodes

export_edges(dag) ==
    UNION {{<<s, t>> : t \in Range(dag.edges[s])} : s \in DOMAIN dag.edges}

\* the number of entries of the adjacency lists that name n
InDegree(dag, n) ==
    Cardinality({e \in UNION {{<<s, j>> : j \in DOMAIN dag.edges[s]} : s \in DOMAIN dag.edges} :
                    dag.edges[e[1]][e[2]] = n})

\* Kahn's loop: pop the front, push every neighbour whose in-degree drops to 0.
\* the neighbour loop that queues a neighbour whatever its in-degree has become
RECURSIVE KahnVisit_PushAll(_, _, _, _)
RECURSIVE KahnVisit(_, _, _, _)
RECURSIVE KahnLoop(_, _, _, _)
KahnVisit_PushAll(neighbors, in_degree, queue, i) ==
    IF i > Len(neighbors) THEN [in_degree |-> in_degree, queue |-> queue]
    ELSE LET n == neighbors[i]
             d == in_degree[n] - 1
         IN  KahnVisit_PushAll(neighbors, [in_degree EXCEPT ![n] = d], Append(queue, n), i + 1)

KahnVisit(neighbors, in_degree, queue, i) ==
    IF i > Len(neighbors) THEN [in_degree |-> in_degree, queue |-> queue]
    ELSE LET n == neighbors[i]
             d == in_degree[n] - 1
         IN  KahnVisit(neighbors, [in_degree EXCEPT ![n] = d],
                       IF d = 0 THEN Append(queue, n) ELSE queue, i + 1)

KahnLoop(dag, in_degree, queue, result) ==
    IF queue = <<>> THEN result
    ELSE LET node == Head(queue)
             v == KahnVisit(get_children(dag, node), in_degree, Tail(queue), 1)
         IN  KahnLoop(dag, v.in_degree, v.queue, Append(result, node))

\* queue0: the zero in-degree nodes in the iteration order of the in_degree HashMap
topological_sort(dag, queue0) ==
    LET in_degree == [n \in dag.nodes |-> InDegree(dag, n)]
        result == KahnLoop(dag, in_degree, queue0, <<>>)
    IN  IF Len(result) # Cardinality(dag.nodes)
        THEN [res |-> "CycleDetected", order |-> <<>>]
        ELSE [res |-> "Ok", order |-> result]

\* every order the HashMap iteration can give the initial queue
InitialQueues(dag) == Perms({n \in dag.nodes : InDegree(dag, n) = 0})

-----------------------------------------------------------------------------
(* models.rs, events.rs, registry.rs *)

Run == "r1"            \* the run id start_workflow draws
NoAgent == "None"      \* Option<String>::None

Agent(id, deps, allow) ==
    [id |-> id, depends_on |-> deps, allow_delegation |-> allow]

Invocation(agent, status, tokens, error) ==
    [agent_id |-> agent, status |-> status, tokens_used |-> tokens, error_message |-> error]

RuntimeEvent(type, agent, payload) ==
    [event_type |-> type, agent_id |-> agent, payload |-> payload]

Pattern(id, trigger, condition, action) ==
    [id |-> id, trigger_event |-> trigger, condition |-> condition, action |-> action]

\* register_fallback_patterns: the registry when the pattern file is missing
FallbackPatterns ==
    {Pattern("guard_fs_delete", "ToolCall", "fs_delete", "Interrupt")}

\* config/cortex_patterns.json: the pattern the circuit breaker's comment names
ApprovalPatterns ==
    {Pattern("gate_retry", "AgentFailed", "*", "RequestApproval")}

\* config/cortex_patterns.json: an interrupt on a completion payload
BudgetPatterns ==
    {Pattern("guard_tokens", "AgentCompleted", "tokens_used", "Interrupt")}

Registries == {FallbackPatterns, ApprovalPatterns, BudgetPatterns}

get_patterns_for_trigger(event_type) ==
    {p \in patterns : p.trigger_event = event_type \/ Contains(event_type, p.trigger_event)}

condition_met(p, event) ==
    IF p.condition = "*" THEN TRUE ELSE Contains(event.payload, p.condition)

(* The workflow configs submitted to start_workflow *)

WfLinear ==
    [id |-> "wf_linear",
     agents |-> <<Agent("a", <<>>, FALSE), Agent("b", <<"a">>, FALSE), Agent("c", <<"b">>, FALSE)>>]

WfPair ==
    [id |-> "wf_pair",
     agents |-> <<Agent("research_q", <<>>, FALSE), Agent("coder_b", <<>>, FALSE)>>]

WfDeleg ==
    [id |-> "wf_deleg",
     agents |-> <<Agent("p", <<>>, TRUE), Agent("c", <<"p">>, FALSE)>>]

Workflows == {WfLinear, WfPair, WfDeleg}

\* workflow.agents.iter().find(|a| a.id == id)
FindAgent(agents, id) ==
    IF \E i \in DOMAIN agents : agents[i].id = id
    THEN LET i == CHOOSE i \in DOMAIN agents :
                    agents[i].id = id /\ \A j \in 1..(i - 1) : agents[j].id # id
         IN  <<agents[i]>>
    ELSE <<>>

-----------------------------------------------------------------------------
(* runtime.rs: the run state record and its writers *)

HasState == Run \in DOMAIN runtime_states
St == runtime_states[Run]
has_dag == Run \in DOMAIN dag_store

Terminal(status) == status \in {"completed", "failed"}

\* RuntimeState built by start_workflow
NewState(workflow_id) ==
    [workflow_id |-> workflow_id, status |-> "running",
     active_agents |-> <<>>, completed_agents |-> <<>>, failed_agents |-> <<>>,
     invocations |-> <<>>, total_tokens_used |-> 0, end_time |-> FALSE]

fail_run(st, agent_id, error) ==
    [st EXCEPT !.status = "failed",
               !.end_time = TRUE,
               !.failed_agents = Append(@, agent_id),
               !.active_agents = Retain(@, agent_id),
               !.invocations = Append(@, Invocation(agent_id, "failed", 0, error))]

request_approval(st) == [st EXCEPT !.status = "awaiting_approval"]

update_agent_status(st, agent_id) ==
    IF VecContains(st.active_agents, agent_id) THEN st
    ELSE [st EXCEPT !.active_agents = Append(@, agent_id)]

record_invocation(st, inv) ==
    LET s1 == [st EXCEPT !.invocations = Append(@, inv),
                         !.total_tokens_used = @ + inv.tokens_used]
    IN  CASE inv.status = "success" ->
                [s1 EXCEPT !.active_agents = Retain(@, inv.agent_id),
                           !.completed_agents = Append(@, inv.agent_id)]
          [] inv.status = "failed" ->
                [s1 EXCEPT !.active_agents = Retain(@, inv.agent_id),
                           !.failed_agents = Append(@, inv.agent_id)]
          [] OTHER -> s1

set_run_status(st, status) == [st EXCEPT !.status = status]

quiescence_complete(st) == [st EXCEPT !.status = "completed", !.end_time = TRUE]

\* persist_state: SET run:{id}:state, then SREM or SADD on sys:active_runs
PersistedActive(st) ==
    IF Terminal(st.status) THEN kv_active \ {Run} ELSE kv_active \cup {Run}

persist_state(states) ==
    IF redis_client /\ Run \in DOMAIN states
    THEN /\ kv_state' = [r \in {Run} |-> states[Run]]
         /\ kv_active' = PersistedActive(states[Run])
    ELSE UNCHANGED <<kv_state, kv_active>>

\* get_mut on the run's entry: waits while another task holds a Ref of it
CanWrite == held_refs = {}

\* a write to the run's state, the persist_state that follows it, and the events sent
WriteState(st, sent) ==
    /\ CanWrite
    /\ runtime_states' = [runtime_states EXCEPT ![Run] = st]
    /\ persist_state(runtime_states')
    /\ events' = events \o sent

\* a rehydration that loads every state as it was saved
rehydrated_state_AsSaved(st) == st

\* rehydrate_from_redis: the states of the runs in sys:active_runs
rehydrated_state(st) ==
    IF st.status = "running"
    THEN [st EXCEPT !.status = "failed",
                    !.invocations = Append(@, Invocation("KERNEL", "failed", 0,
                    "kernel_restarted"))]
    ELSE st

rehydrate_from_redis ==
    IF redis_client
    THEN [r \in kv_active \cap DOMAIN kv_state |-> rehydrated_state(kv_state[r])]
    ELSE <<>>

-----------------------------------------------------------------------------
(* runtime.rs: handle_delegation *)

Put(m, k, v) == [x \in (DOMAIN m) \cup {k} |-> IF x = k THEN v ELSE m[x]]

is_pending(st, id) ==
    /\ ~VecContains(st.active_agents, id)
    /\ ~VecContains(st.completed_agents, id)
    /\ ~VecContains(st.failed_agents, id)

\* workflow.agents.remove(position of the first config with this id)
RECURSIVE RemoveAgent(_, _)
RemoveAgent(agents, id) ==
    IF agents = <<>> THEN <<>>
    ELSE IF Head(agents).id = id THEN Tail(agents)
    ELSE <<Head(agents)>> \o RemoveAgent(Tail(agents), id)

\* format!("{}_{}", old_id, suffix), the suffix being the first group of a fresh uuid
RenamedId(old_id, n) == old_id \o "_" \o ToString(n)

\* 2. the collision loop over req.new_nodes
RECURSIVE ResolveCollisions(_, _, _, _)
ResolveCollisions(acc, st, existing_node_ids, i) ==
    IF i > Len(acc.new_nodes) THEN acc
    ELSE LET node == acc.new_nodes[i]
         IN  IF node.id \notin existing_node_ids
             THEN ResolveCollisions(acc, st, existing_node_ids, i + 1)
             ELSE IF is_pending(st, node.id)
             THEN ResolveCollisions(
                      [acc EXCEPT !.agents = RemoveAgent(@, node.id),
                                  !.dag = clear_incoming_edges(@, node.id)],
                      st, existing_node_ids, i + 1)
             ELSE LET new_id == RenamedId(node.id, acc.uuid)
                  IN  ResolveCollisions(
                          [acc EXCEPT !.new_nodes[i].id = new_id,
                                      !.id_map = Put(@, node.id, new_id),
                                      !.uuid = @ + 1],
                          st, existing_node_ids, i + 1)

RemapDeps(deps, id_map) ==
    [k \in DOMAIN deps |-> IF deps[k] \in DOMAIN id_map THEN id_map[deps[k]] ELSE deps[k]]

\* depends_on.retain(|p| p != parent_id), then push every new id not yet listed
RECURSIVE PushMissing(_, _)
PushMissing(deps, ids) ==
    IF ids = <<>> THEN deps
    ELSE PushMissing(IF VecContains(deps, Head(ids)) THEN deps ELSE Append(deps, Head(ids)),
                     Tail(ids))

RewireDependent(agents, dep_id, parent_id, new_ids) ==
    IF \E i \in DOMAIN agents : agents[i].id = dep_id
    THEN LET i == CHOOSE i \in DOMAIN agents :
                    agents[i].id = dep_id /\ \A j \in 1..(i - 1) : agents[j].id # dep_id
         IN  [agents EXCEPT ![i].depends_on = PushMissing(Retain(@, parent_id), new_ids)]
    ELSE agents

RECURSIVE RewireDependents(_, _, _, _)
RewireDependents(agents, dependents, parent_id, new_ids) ==
    IF dependents = <<>> THEN agents
    ELSE RewireDependents(RewireDependent(agents, Head(dependents), parent_id, new_ids),
                          Tail(dependents), parent_id, new_ids)

\* step 3 without the rewrite of the old dependents
MutateConfig_NoRewire(agents, new_nodes, strategy, existing_dependents, parent_id) ==
    agents \o new_nodes

\* 3. the workflow config: push the new nodes, rewrite the old dependents (Child)
MutateConfig(agents, new_nodes, strategy, existing_dependents, parent_id) ==
    LET pushed == agents \o new_nodes
        new_ids == [k \in DOMAIN new_nodes |-> new_nodes[k].id]
    IN  IF strategy = "Child"
        THEN RewireDependents(pushed, existing_dependents, parent_id, new_ids)
        ELSE pushed

\* the edges a new node declares; an add_edge error is logged and dropped
RECURSIVE AddDeclaredEdges(_, _, _)
AddDeclaredEdges(dag, deps, id) ==
    IF deps = <<>> THEN dag
    ELSE AddDeclaredEdges(add_edge(dag, Head(deps), id).dag, Tail(deps), id)

\* node -> every old dependent; the first add_edge error is returned
RECURSIVE AddSpliceEdges(_, _, _)
AddSpliceEdges(dag, id, dependents) ==
    IF dependents = <<>> THEN [res |-> "Ok", dag |-> dag]
    ELSE LET r == add_edge(dag, id, Head(dependents))
         IN  IF r.res # "Ok" THEN r
             ELSE AddSpliceEdges(r.dag, id, Tail(dependents))

\* step 4 with the splice edges added under either strategy
RECURSIVE MutateDag_AlwaysSplice(_, _, _, _, _, _)
MutateDag_AlwaysSplice(dag, new_nodes, strategy, existing_dependents, parent_id, i) ==
    IF i > Len(new_nodes) THEN [res |-> "Ok", dag |-> dag]
    ELSE LET node == new_nodes[i]
             d1 == add_node(dag, node.id)
             d2 == AddDeclaredEdges(d1, node.depends_on, node.id)
             d3 == IF node.depends_on = <<>> \/ VecContains(node.depends_on, parent_id)
                   THEN add_edge(d2, parent_id, node.id).dag
                   ELSE d2
             r == AddSpliceEdges(d3, node.id, existing_dependents)
         IN  IF r.res # "Ok" THEN r
             ELSE MutateDag_AlwaysSplice(r.dag, new_nodes, strategy, existing_dependents,
                                         parent_id, i + 1)

\* 4. the loop over req.new_nodes under the graph's write lock
RECURSIVE MutateDag(_, _, _, _, _, _)
MutateDag(dag, new_nodes, strategy, existing_dependents, parent_id, i) ==
    IF i > Len(new_nodes) THEN [res |-> "Ok", dag |-> dag]
    ELSE LET node == new_nodes[i]
             d1 == add_node(dag, node.id)
             d2 == AddDeclaredEdges(d1, node.depends_on, node.id)
             d3 == IF node.depends_on = <<>> \/ VecContains(node.depends_on, parent_id)
                   THEN add_edge(d2, parent_id, node.id).dag
                   ELSE d2
             r == IF strategy = "Child"
                  THEN AddSpliceEdges(d3, node.id, existing_dependents)
                  ELSE [res |-> "Ok", dag |-> d3]
         IN  IF r.res # "Ok" THEN r
             ELSE MutateDag(r.dag, new_nodes, strategy, existing_dependents, parent_id, i + 1)

\* the splice without its step C: the edges parent -> dependent stay
RemoveOldEdges_Keep(dag, parent_id, dependents) == dag

RECURSIVE RemoveOldEdges(_, _, _)
RemoveOldEdges(dag, parent_id, dependents) ==
    IF dependents = <<>> THEN dag
    ELSE RemoveOldEdges(remove_edge(dag, parent_id, Head(dependents)).dag,
                        parent_id, Tail(dependents))

\* The whole surgery.  st, agents and dag are the run's entries; the result carries
\* the entries as the call leaves them, also when it returns an error part-way.
handle_delegation(st, agents, dag, parent_id, req, uuid0) ==
    LET existing_dependents == get_children(dag, parent_id)
        existing_node_ids == export_nodes(dag)
        c == ResolveCollisions(
                 [new_nodes |-> req.new_nodes, id_map |-> <<>>, agents |-> agents,
                  dag |-> dag, uuid |-> uuid0],
                 st, existing_node_ids, 1)
        new_nodes == [k \in DOMAIN c.new_nodes |->
                         [c.new_nodes[k] EXCEPT !.depends_on = RemapDeps(@, c.id_map)]]
        agents2 == MutateConfig(c.agents, new_nodes, req.strategy, existing_dependents, parent_id)
        m == MutateDag(c.dag, new_nodes, req.strategy, existing_dependents, parent_id, 1)
        d5 == IF req.strategy = "Child"
              THEN RemoveOldEdges(m.dag, parent_id, existing_dependents)
              ELSE m.dag
        sorted == \E q \in InitialQueues(d5) : topological_sort(d5, q).res = "Ok"
    IN  IF m.res # "Ok"
        THEN [res |-> m.res, agents |-> agents2, dag |-> m.dag, uuid |-> c.uuid]
        ELSE IF ~sorted
        THEN [res |-> "Delegation created a cycle in DAG", agents |-> agents2, dag |-> d5,
              uuid |-> c.uuid]
        ELSE [res |-> "Ok", agents |-> agents2, dag |-> d5, uuid |-> c.uuid]

-----------------------------------------------------------------------------
(* The worker: RemoteAgentResponse values and the delegations they may carry *)

Output(result, output, files) ==
    [result |-> result, output |-> output, files_generated |-> files]

Response(transport_ok, success, output, tokens, delegation) ==
    [transport_ok |-> transport_ok, success |-> success, output |-> output,
     tokens_used |-> tokens, delegation |-> delegation]

Delegation(new_nodes, strategy) == [new_nodes |-> new_nodes, strategy |-> strategy]

\* a delegated batch: X, then Y depending on X
DelegChain == Delegation(<<Agent("x", <<>>, FALSE), Agent("y", <<"x">>, FALSE)>>, "Child")
\* the same batch with Y listed before the node it depends on
DelegForward == Delegation(<<Agent("y", <<"x">>, FALSE), Agent("x", <<>>, FALSE)>>, "Child")
DelegSibling == Delegation(<<Agent("x", <<>>, FALSE)>>, "Sibling")

Delegations == {DelegChain, DelegForward, DelegSibling}

TransportError == Response(FALSE, FALSE, <<>>, 0, <<>>)
Unsuccessful == Response(TRUE, FALSE, <<>>, 0, <<>>)
OkText == Response(TRUE, TRUE, <<Output(<<"data">>, <<>>, <<>>)>>, 1, <<>>)
OkSearch == Response(TRUE, TRUE, <<Output(<<"web_search data">>, <<>>, <<>>)>>, 1, <<>>)
NullResult == Response(TRUE, TRUE, <<Output(<<"[STATUS: NULL]">>, <<>>, <<>>)>>, 1, <<>>)
NullOutput == Response(TRUE, TRUE, <<Output(<<>>, <<"[STATUS: NULL]">>, <<>>)>>, 1, <<>>)
NullOutputFiles == Response(TRUE, TRUE, <<Output(<<>>, <<"[STATUS: NULL]">>, <<"f.csv">>)>>, 1, <<>>)
OkPython == Response(TRUE, TRUE, <<Output(<<"execute_python data">>, <<>>, <<>>)>>, 1, <<>>)
OkBypass == Response(TRUE, TRUE, <<Output(<<"[BYPASS: x] data">>, <<>>, <<>>)>>, 1, <<>>)
OkDelegating(d) == Response(TRUE, TRUE, <<Output(<<"data">>, <<>>, <<>>)>>, 1, <<d>>)

Responses ==
    {TransportError, Unsuccessful, OkText, OkSearch, OkPython, OkBypass, NullResult,
     NullOutput, NullOutputFiles}
    \cup {OkDelegating(d) : d \in Delegations}

\* res.output.get("result").as_str().unwrap_or("")
ResultText(res) ==
    IF res.output # <<>> /\ res.output[1].result # <<>> THEN res.output[1].result[1] ELSE ""

is_semantic_null(res) == Contains(ResultText(res), "[STATUS: NULL]")
is_bypassed(res) == Contains(ResultText(res), "[BYPASS:")
used_python(res) == Contains(ResultText(res), "execute_python")
used_search(res) == Contains(ResultText(res), "web_search")

protocol_violation(agent_id, res) ==
    /\ ~is_bypassed(res)
    /\ \/ StartsWith(agent_id, "research_") /\ ~used_search(res)
       \/ /\ ~(StartsWith(agent_id, "research_") /\ ~used_search(res))
          /\ StartsWith(agent_id, "analyze_") \/ StartsWith(agent_id, "coder_")
          /\ ~used_python(res)

\* the reason the circuit breaker gives
pause_reason(agent_id, res) ==
    IF is_semantic_null(res) THEN "Semantic Null"
    ELSE IF protocol_violation(agent_id, res) THEN "Protocol Violation"
    ELSE "Unknown Execution Error"

\* the condition of the happy path
Accepted(agent_id, res) ==
    res.success /\ ~is_semantic_null(res) /\ ~protocol_violation(agent_id, res)

-----------------------------------------------------------------------------
(* runtime.rs: prepare_invocation_payload, the pre-flight part *)

\* val.result, else val.output, else "No text output"
ContextText(val) ==
    IF val.result # <<>> THEN val.result[1]
    ELSE IF val.output # <<>> THEN val.output[1]
    ELSE "No text output"

\* the dependencies whose artifact the context fetch reads from Redis
Fetched(deps) ==
    IF redis_client THEN {d \in Range(deps) : d \in DOMAIN kv_artifacts} ELSE {}

context_drought(agent_config) ==
    LET deps == agent_config.depends_on
        has_null_signal == \E d \in Fetched(deps) : Contains(ContextText(kv_artifacts[d]), "[STATUS: NULL]")
        has_files == \E d \in Fetched(deps) : kv_artifacts[d].files_generated # <<>>
        is_root_node == deps = <<>>
    IN  ~is_root_node /\ (Fetched(deps) = {} \/ (has_null_signal /\ ~has_files))

\* store_artifact: SETEX of the output under the canonical key
store_artifact(agent_id, output) ==
    IF redis_client THEN Put(kv_artifacts, agent_id, output) ELSE kv_artifacts

-----------------------------------------------------------------------------
(* The tasks *)

LoopIds == 1..MaxLoops

IdleLoop == [pc |-> "idle", agent_id |-> NoAgent, response |-> <<>>]

\* tokio::spawn of execute_dynamic_dag: the next free task slot
CanSpawn == \E l \in LoopIds : loops[l].pc = "idle"
Spawn(ls, pc0) ==
    LET l == CHOOSE k \in LoopIds : ls[k].pc = "idle" /\ \A j \in 1..(k - 1) : ls[j].pc # "idle"
    IN  [ls EXCEPT ![l].pc = pc0]

Goto(l, pc) == loops' = [loops EXCEPT ![l].pc = pc]

envVars == <<redis_client, patterns>>
historyVars == <<replies_usable, invoked>>
graphVars == <<graph, graph_call>>
outVars == <<thought_signatures, start_reply, cleanups>>
engineVars == <<rx, todo>>
handlerVars == <<resume_pc, stops, crashes>>
kvStateVars == <<kv_state, kv_active>>

\* the kernel after boot, with the pattern file one of `registries`
Boot(registries) ==
    /\ redis_client \in BOOLEAN
    /\ patterns \in registries
    /\ workflows = <<>>
    /\ runtime_states = <<>>
    /\ dag_store = <<>>
    /\ held_refs = {}
    /\ loops = [l \in LoopIds |-> IdleLoop]
    /\ events = <<>>
    /\ rx = 0
    /\ todo = <<>>
    /\ kv_state = <<>>
    /\ kv_active = {}
    /\ kv_artifacts = <<>>
    /\ resume_pc = "idle"
    /\ stops = 0
    /\ crashes = 0
    /\ uuid = 1
    /\ replies_usable = TRUE
    /\ invoked = {}
    /\ graph = DagNew
    /\ graph_call = <<>>
    /\ thought_signatures = {}
    /\ start_reply = <<>>
    /\ cleanups = 0

Init == Boot(Registries)

(* start_workflow *)

RECURSIVE AddDependencyEdges(_, _, _)
AddDependencyEdges(dag, deps, id) ==
    IF deps = <<>> THEN [res |-> "Ok", dag |-> dag]
    ELSE LET r == add_edge(dag, Head(deps), id)
         IN  IF r.res # "Ok" THEN r ELSE AddDependencyEdges(r.dag, Tail(deps), id)

RECURSIVE AddAgentEdges(_, _, _)
AddAgentEdges(dag, agents, i) ==
    IF i > Len(agents) THEN [res |-> "Ok", dag |-> dag]
    ELSE LET r == AddDependencyEdges(dag, agents[i].depends_on, agents[i].id)
         IN  IF r.res # "Ok" THEN r ELSE AddAgentEdges(r.dag, agents, i + 1)

\* the answer of the start handler: Ok(Json) or Err(StatusCode::BAD_REQUEST)
Reply(id, status) == [config |-> id, status |-> status]

\* a validation that lets every configuration through
BuildDag_NoValidation(config) ==
    [res |-> "Ok",
     dag |-> [DagNew EXCEPT !.nodes = {config.agents[i].id : i \in DOMAIN config.agents}]]

\* the validation of start_workflow: all nodes, then all edges, then a sort
BuildDag(config) ==
    LET withNodes == [DagNew EXCEPT !.nodes = {config.agents[i].id : i \in DOMAIN config.agents}]
        r == AddAgentEdges(withNodes, config.agents, 1)
    IN  IF r.res # "Ok" THEN r
        ELSE IF \E q \in InitialQueues(r.dag) : topological_sort(r.dag, q).res = "Ok" THEN r
        ELSE [res |-> "CycleDetected", dag |-> r.dag]

StartWorkflow(config) ==
    /\ ~HasState
    /\ crashes = 0
    /\ BuildDag(config).res = "Ok"
    /\ CanSpawn
    /\ workflows' = Put(workflows, config.id, config)
    /\ dag_store' = Put(dag_store, Run, BuildDag(config).dag)
    /\ runtime_states' = Put(runtime_states, Run, NewState(config.id))
    /\ thought_signatures' = thought_signatures \cup {Run}
    /\ loops' = Spawn(loops, "start")
    /\ start_reply' = Reply(config.id, 200)
    /\ UNCHANGED <<envVars, graphVars, cleanups, historyVars, held_refs, events, engineVars,
                   kvStateVars,
                   kv_artifacts, handlerVars, uuid>>

\* start_workflow returns Err before its first insert: the handler answers 400
StartRejected(config) ==
    /\ BuildDag(config).res # "Ok"
    /\ start_reply' = Reply(config.id, 400)
    /\ UNCHANGED <<envVars, graphVars, thought_signatures, cleanups, historyVars, workflows,
                   runtime_states,
                   dag_store, held_refs, loops, events, engineVars, kvStateVars, kv_artifacts,
                   handlerVars, uuid>>

(* execute_dynamic_dag *)

\* the fire-and-forget DELETE {worker}/runtime/{run_id}/cleanup
trigger_remote_cleanup == cleanups' = cleanups + 1

\* the spawned task of start_workflow persists the state before it enters the loop
LoopStart(l) ==
    /\ loops[l].pc = "start"
    /\ persist_state(runtime_states)
    /\ Goto(l, "gate")
    /\ UNCHANGED <<envVars, graphVars, outVars, historyVars, workflows, runtime_states, dag_store,
                   held_refs, events,
                   engineVars, kv_artifacts, handlerVars, uuid>>

\* 1. the status gate
LoopGate(l) ==
    /\ loops[l].pc = "gate"
    /\ IF HasState /\ St.status \notin {"awaiting_approval", "failed", "completed"}
       THEN Goto(l, "select")
       ELSE Goto(l, "done")
    /\ UNCHANGED <<envVars, graphVars, outVars, historyVars, workflows, runtime_states, dag_store,
                   held_refs, events,
                   engineVars, kvStateVars, kv_artifacts, handlerVars, uuid>>

\* the first id of the order that is pending and whose graph dependencies are completed
IsReady(st, dag, id) ==
    /\ is_pending(st, id)
    /\ \A d \in get_dependencies(dag, id) : VecContains(st.completed_agents, d)

FirstReady(st, dag, order) ==
    IF \E i \in DOMAIN order : IsReady(st, dag, order[i])
    THEN LET i == CHOOSE i \in DOMAIN order :
                    IsReady(st, dag, order[i]) /\ \A j \in 1..(i - 1) : ~IsReady(st, dag, order[j])
         IN  <<order[i]>>
    ELSE <<>>

\* 2. the selection; a sort error fails the run as SYSTEM and ends the loop
LoopSelect(l) ==
    /\ loops[l].pc = "select"
    /\ IF ~has_dag
       THEN /\ Goto(l, "done")
            /\ UNCHANGED <<runtime_states, events, kvStateVars>>
       ELSE \E q \in InitialQueues(dag_store[Run]) :
              LET sorted == topological_sort(dag_store[Run], q)
                  next == FirstReady(St, dag_store[Run], sorted.order)
              IN  IF sorted.res # "Ok"
                  THEN /\ WriteState(fail_run(St, "SYSTEM", "DAG cycle detected during execution"), <<>>)
                       /\ Goto(l, "done")
                  ELSE /\ loops' = IF next = <<>>
                                   THEN [loops EXCEPT ![l].pc = "quiesce"]
                                   ELSE [loops EXCEPT ![l].pc = "dispatch", ![l].agent_id = next[1]]
                       /\ UNCHANGED <<runtime_states, events, kvStateVars>>
    /\ UNCHANGED <<envVars, graphVars, outVars, historyVars, workflows, dag_store, held_refs,
                   engineVars, kv_artifacts,
                   handlerVars, uuid>>

\* 3. nothing ready: sleep and retry while something is active, else finish
LoopQuiesce(l) ==
    /\ loops[l].pc = "quiesce"
    /\ LET running_count == IF HasState THEN Len(St.active_agents) ELSE 0
       IN  IF running_count > 0 THEN Goto(l, "gate") ELSE Goto(l, "complete")
    /\ UNCHANGED <<envVars, graphVars, outVars, historyVars, workflows, runtime_states, dag_store,
                   held_refs, events,
                   engineVars, kvStateVars, kv_artifacts, handlerVars, uuid>>

LoopComplete(l) ==
    /\ loops[l].pc = "complete"
    /\ HasState
    /\ WriteState(quiescence_complete(St), <<>>)
    /\ trigger_remote_cleanup
    /\ Goto(l, "done")
    /\ UNCHANGED <<envVars, graphVars, thought_signatures, start_reply, historyVars, workflows,
                   dag_store, held_refs, engineVars, kv_artifacts,
                   handlerVars, uuid>>

\* the dispatch without its AgentStarted event
LoopDispatch_NoStarted(l) ==
    /\ loops[l].pc = "dispatch"
    /\ HasState
    /\ CanWrite
    /\ LET agent_id == loops[l].agent_id
           marked == update_agent_status(St, agent_id)
           found == IF St.workflow_id \in DOMAIN workflows
                    THEN FindAgent(workflows[St.workflow_id].agents, agent_id)
                    ELSE <<>>
       IN  IF found = <<>>
           THEN /\ WriteState(fail_run(marked, agent_id, "Agent not found"), <<>>)
                /\ trigger_remote_cleanup
                /\ Goto(l, "gate")
                /\ UNCHANGED <<held_refs, invoked>>
           ELSE /\ UNCHANGED cleanups
                /\ runtime_states' = [runtime_states EXCEPT ![Run] = marked]
                /\ IF marked # St THEN persist_state(runtime_states')
                                  ELSE UNCHANGED kvStateVars
                /\ UNCHANGED events
                /\ IF context_drought(found[1])
                   THEN Goto(l, "parked") /\ held_refs' = held_refs \cup {l} /\ UNCHANGED invoked
                   ELSE Goto(l,
                   "invoke") /\ UNCHANGED held_refs /\ invoked' = invoked \cup {agent_id}
    /\ UNCHANGED <<envVars, graphVars, thought_signatures, start_reply, replies_usable, workflows,
                   dag_store, engineVars, kv_artifacts, handlerVars, uuid>>

\* 5./6. mark active (persisted when the list changed), AgentStarted, then
\* prepare_invocation_payload.  The payload call keeps its Ref of the run's state while
\* it calls request_approval on a drought: the task then waits for a write lock that
\* its own Ref keeps taken, and request_approval never runs.
LoopDispatch(l) ==
    /\ loops[l].pc = "dispatch"
    /\ HasState
    /\ CanWrite
    /\ LET agent_id == loops[l].agent_id
           marked == update_agent_status(St, agent_id)
           started == RuntimeEvent("AgentStarted", agent_id, "agent_id:" \o agent_id)
           found == IF St.workflow_id \in DOMAIN workflows
                    THEN FindAgent(workflows[St.workflow_id].agents, agent_id)
                    ELSE <<>>
       IN  IF found = <<>>
           THEN /\ WriteState(fail_run(marked, agent_id, "Agent not found"), <<started>>)
                /\ trigger_remote_cleanup
                /\ Goto(l, "gate")
                /\ UNCHANGED <<held_refs, invoked>>
           ELSE /\ UNCHANGED cleanups
                /\ runtime_states' = [runtime_states EXCEPT ![Run] = marked]
                /\ IF marked # St THEN persist_state(runtime_states')
                                  ELSE UNCHANGED kvStateVars
                /\ events' = Append(events, started)
                /\ IF context_drought(found[1])
                   THEN Goto(l, "parked") /\ held_refs' = held_refs \cup {l} /\ UNCHANGED invoked
                   ELSE Goto(l,
                   "invoke") /\ UNCHANGED held_refs /\ invoked' = invoked \cup {agent_id}
    /\ UNCHANGED <<envVars, graphVars, thought_signatures, start_reply, replies_usable, workflows,
                   dag_store, engineVars, kv_artifacts, handlerVars, uuid>>

\* a reply whose text a dependent node can use as context
Usable(res) ==
    /\ res.transport_ok /\ res.success
    /\ res.output # <<>>
    /\ ~Contains(ContextText(res.output[1]), "[STATUS: NULL]")
    /\ ~is_semantic_null(res)

\* invoke_remote_agent returns
WorkerReply(l, res) ==
    /\ loops[l].pc = "invoke"
    /\ loops' = [loops EXCEPT ![l].pc = "result", ![l].response = <<res>>]
    /\ replies_usable' = (replies_usable /\ Usable(res))
    /\ UNCHANGED <<envVars, graphVars, outVars, invoked, workflows, runtime_states, dag_store,
                   held_refs, events,
                   engineVars, kvStateVars, kv_artifacts, handlerVars, uuid>>

\* the Err arm: AgentFailed, fail_run, cleanup, next iteration
HandleTransportError(l) ==
    LET agent_id == loops[l].agent_id
    IN  /\ WriteState(fail_run(St, agent_id, "transport error"),
                      <<RuntimeEvent("AgentFailed", agent_id,
                      "agent_id:" \o agent_id \o " error")>>)
        /\ trigger_remote_cleanup
        /\ loops' = [loops EXCEPT ![l].pc = "gate", ![l].response = <<>>]
        /\ UNCHANGED <<workflows, dag_store, kv_artifacts, uuid>>

\* the circuit breaker without its break: the loop goes on to the next iteration
HandleCircuitBreaker_NoBreak(l) ==
    LET agent_id == loops[l].agent_id
    IN  /\ WriteState(request_approval(St),
                      <<RuntimeEvent("SystemIntervention", agent_id, "action:pause"),
                        RuntimeEvent("AgentFailed", agent_id,
                                     "error:" \o pause_reason(agent_id, loops[l].response[1]))>>)
        /\ loops' = [loops EXCEPT ![l].pc = "gate", ![l].response = <<>>]
        /\ UNCHANGED <<workflows, dag_store, kv_artifacts, uuid>>

\* the circuit breaker: request_approval, AgentFailed, break
HandleCircuitBreaker(l) ==
    LET agent_id == loops[l].agent_id
    IN  /\ WriteState(request_approval(St),
                      <<RuntimeEvent("SystemIntervention", agent_id, "action:pause"),
                        RuntimeEvent("AgentFailed", agent_id,
                                     "error:" \o pause_reason(agent_id, loops[l].response[1]))>>)
        /\ loops' = [loops EXCEPT ![l].pc = "done", ![l].response = <<>>]
        /\ UNCHANGED <<workflows, dag_store, kv_artifacts, uuid>>

\* B. the completion: artifact, record_invocation, AgentCompleted
Completion(l, res) ==
    LET agent_id == loops[l].agent_id
    IN  /\ kv_artifacts' = IF res.output # <<>>
                           THEN store_artifact(agent_id, res.output[1])
                           ELSE kv_artifacts
        /\ WriteState(record_invocation(St, Invocation(agent_id, "success", res.tokens_used, "")),
                      <<RuntimeEvent("AgentCompleted", agent_id,
                                     "agent_id:" \o agent_id \o " tokens_used")>>)
        /\ loops' = [loops EXCEPT ![l].pc = "gate", ![l].response = <<>>]

\* the gate that lets every node of the workflow delegate
can_delegate_Any(agent_id) ==
    /\ St.workflow_id \in DOMAIN workflows
    /\ FindAgent(workflows[St.workflow_id].agents, agent_id) # <<>>

\* A. the delegation, behind the permission gate
can_delegate(agent_id) ==
    /\ St.workflow_id \in DOMAIN workflows
    /\ LET found == FindAgent(workflows[St.workflow_id].agents, agent_id)
       IN  found # <<>> /\ found[1].allow_delegation

HandleAccepted(l, res) ==
    LET agent_id == loops[l].agent_id
    IN  IF res.delegation # <<>> /\ can_delegate(agent_id)
        THEN LET wf == workflows[St.workflow_id]
                 d == handle_delegation(St, wf.agents, dag_store[Run], agent_id,
                                        res.delegation[1], uuid)
             IN  /\ workflows' = [workflows EXCEPT ![St.workflow_id].agents = d.agents]
                 /\ dag_store' = [dag_store EXCEPT ![Run] = d.dag]
                 /\ uuid' = d.uuid
                 /\ IF d.res = "Ok"
                    THEN Completion(l, res)
                    ELSE /\ WriteState(fail_run(St, agent_id, "Delegation error"), <<>>)
                         /\ loops' = [loops EXCEPT ![l].pc = "gate", ![l].response = <<>>]
                         /\ UNCHANGED kv_artifacts
        ELSE /\ Completion(l, res)
             /\ UNCHANGED <<workflows, dag_store, uuid>>

\* 6. the result of the worker call
LoopHandleResult(l) ==
    /\ loops[l].pc = "result"
    /\ HasState /\ has_dag
    /\ LET res == loops[l].response[1]
       IN  IF ~res.transport_ok THEN HandleTransportError(l)
           ELSE IF Accepted(loops[l].agent_id, res) THEN HandleAccepted(l, res) /\ UNCHANGED cleanups
           ELSE HandleCircuitBreaker(l) /\ UNCHANGED cleanups
    /\ UNCHANGED <<envVars, graphVars, thought_signatures, start_reply, historyVars, held_refs,
                   engineVars,
                   handlerVars>>

-----------------------------------------------------------------------------
(* handlers.rs: stop_run and resume_run *)

StopRun ==
    /\ stops < MaxStops
    /\ HasState
    /\ WriteState(fail_run(St, "OPERATOR", "Manual Stop"), <<>>)
    /\ stops' = stops + 1
    /\ UNCHANGED <<envVars, graphVars, outVars, historyVars, workflows, dag_store, held_refs,
                   loops, engineVars, kv_artifacts,
                   resume_pc, crashes, uuid>>

\* 0./1. has_dag, then is_paused; the 404 and 400 answers return before any write
is_paused == HasState /\ St.status = "awaiting_approval"

\* resume_run without its is_paused check
ResumeCheck_NoPauseCheck ==
    /\ resume_pc # "checked"
    /\ IF ~has_dag THEN resume_pc' = "404"
       ELSE CanSpawn /\ resume_pc' = "checked"
    /\ UNCHANGED <<envVars, graphVars, outVars, historyVars, workflows, runtime_states, dag_store,
                   held_refs, loops,
                   events, engineVars, kvStateVars, kv_artifacts, stops, crashes, uuid>>

ResumeCheck ==
    /\ resume_pc # "checked"
    /\ IF ~has_dag THEN resume_pc' = "404"
       ELSE IF ~is_paused THEN resume_pc' = "400"
       ELSE CanSpawn /\ resume_pc' = "checked"
    /\ UNCHANGED <<envVars, graphVars, outVars, historyVars, workflows, runtime_states, dag_store,
                   held_refs, loops, events,
                   engineVars, kvStateVars, kv_artifacts, stops, crashes, uuid>>

\* 2.-4. set_run_status(Running), spawn the loop, SystemIntervention "resume"
ResumeSet ==
    /\ resume_pc = "checked"
    /\ CanWrite
    /\ runtime_states' = IF HasState
                         THEN [runtime_states EXCEPT ![Run] = set_run_status(St, "running")]
                         ELSE runtime_states
    /\ loops' = Spawn(loops, "gate")
    /\ events' = Append(events, RuntimeEvent("SystemIntervention", NoAgent, "action:resume"))
    /\ resume_pc' = "200"
    /\ UNCHANGED <<envVars, graphVars, outVars, historyVars, workflows, dag_store, held_refs,
                   engineVars, kvStateVars,
                   kv_artifacts, stops, crashes, uuid>>

-----------------------------------------------------------------------------
(* main.rs: the pattern engine task *)

Matched(event) == {p \in get_patterns_for_trigger(event.event_type) : condition_met(p, event)}

PendingAction(p, event) == [action |-> p.action, agent_id |-> event.agent_id]

\* recv() up to the next event some pattern matches; the matched patterns come in the
\* iteration order of the registry's map
EngineRecv ==
    /\ todo = <<>>
    /\ \E i \in (rx + 1)..Len(events) :
         /\ Matched(events[i]) # {}
         /\ \A j \in (rx + 1)..(i - 1) : Matched(events[j]) = {}
         /\ rx' = i
         /\ \E order \in Perms(Matched(events[i])) :
              todo' = [k \in DOMAIN order |-> PendingAction(order[k], events[i])]
    /\ UNCHANGED <<envVars, graphVars, outVars, historyVars, workflows, runtime_states, dag_store,
                   held_refs, loops, events,
                   kvStateVars, kv_artifacts, handlerVars, uuid>>

\* 3. Execute Action
EngineAct ==
    /\ todo # <<>>
    /\ LET a == Head(todo)
       IN  CASE a.action = "Interrupt" /\ a.agent_id # NoAgent /\ HasState ->
                    WriteState(fail_run(St, a.agent_id, "pattern interrupt"), <<>>)
             [] a.action = "RequestApproval" /\ HasState ->
                    WriteState(request_approval(St),
                               <<RuntimeEvent("SystemIntervention", a.agent_id, "action:pause")>>)
             [] OTHER -> UNCHANGED <<runtime_states, events, kvStateVars>>
    /\ todo' = Tail(todo)
    /\ UNCHANGED <<envVars, graphVars, outVars, historyVars, workflows, dag_store, held_refs,
                   loops, rx, kv_artifacts,
                   handlerVars, uuid>>

-----------------------------------------------------------------------------
(* The kernel dies and boots again: main runs rehydrate_from_redis first *)

CrashRecover ==
    /\ crashes < MaxCrashes
    /\ HasState
    /\ crashes' = crashes + 1
    /\ runtime_states' = rehydrate_from_redis
    /\ workflows' = <<>>
    /\ dag_store' = <<>>
    /\ held_refs' = {}
    /\ loops' = [l \in LoopIds |-> IdleLoop]
    /\ events' = <<>>
    /\ rx' = 0
    /\ todo' = <<>>
    /\ resume_pc' = "idle"
    /\ thought_signatures' = {}
    /\ UNCHANGED <<envVars, graphVars, start_reply, cleanups, historyVars, kvStateVars,
                   kv_artifacts, stops,
                   uuid>>

-----------------------------------------------------------------------------

Next ==
    \/ \E config \in Workflows : StartWorkflow(config)
    \/ \E l \in LoopIds : LoopStart(l)
    \/ \E l \in LoopIds : LoopGate(l)
    \/ \E l \in LoopIds : LoopSelect(l)
    \/ \E l \in LoopIds : LoopQuiesce(l)
    \/ \E l \in LoopIds : LoopComplete(l)
    \/ \E l \in LoopIds : LoopDispatch(l)
    \/ \E l \in LoopIds : \E res \in Responses : WorkerReply(l, res)
    \/ \E l \in LoopIds : LoopHandleResult(l)
    \/ StopRun
    \/ ResumeCheck
    \/ ResumeSet
    \/ EngineRecv
    \/ EngineAct
    \/ CrashRecover

Spec == Init /\ [][Next]_vars

-----------------------------------------------------------------------------
(* The result step of a delegating node, from the graph situations a run reaches *)

\* parent -> pending_node -> child, the graph of test_delegation_update_pattern
WfUpdate ==
    [id |-> "wf_update",
     agents |-> <<Agent("parent", <<>>, TRUE), Agent("pending_node", <<"parent">>, FALSE),
                  Agent("child", <<"pending_node">>, FALSE)>>]

\* a delegating node with a completed ancestor
WfHistory ==
    [id |-> "wf_history",
     agents |-> <<Agent("r", <<>>, FALSE), Agent("p", <<"r">>, TRUE), Agent("c", <<"p">>, FALSE)>>]

\* a delegating node with two dependents
WfFan ==
    [id |-> "wf_fan",
     agents |-> <<Agent("p", <<>>, TRUE), Agent("c", <<"p">>, FALSE), Agent("d", <<"p">>, FALSE)>>]

Situation(config, done, parent) == [config |-> config, done |-> done, parent |-> parent]

\* a run whose nodes `done` have completed in order and whose node `parent` is with the worker
Situations ==
    {Situation(WfDeleg, <<>>, "p"), Situation(WfUpdate, <<>>, "parent"),
     Situation(WfHistory, <<"r">>, "p"), Situation(WfFan, <<>>, "p"),
     Situation(WfLinear, <<>>, "a")}

ConfigIds(config) == {config.agents[i].id : i \in DOMAIN config.agents}

\* the ids a delegated node may carry or depend on: two fresh ones and those of the workflow
RequestIds(config) == {"x", "y"} \cup ConfigIds(config)

RequestNodes(config) ==
    {Agent(id, deps, FALSE) :
        id \in RequestIds(config),
        deps \in {<<>>} \cup {<<d>> : d \in RequestIds(config)}}

\* DelegationRequest values: new_nodes of 1..MaxBatch nodes, either strategy
Requests(config) ==
    {Delegation(new_nodes, strategy) :
        new_nodes \in UNION {[1..n -> RequestNodes(config)] : n \in 1..MaxBatch},
        strategy \in {"Child", "Sibling"}}

\* the state record_invocation and update_agent_status have built by then
SituationState(sit) ==
    [NewState(sit.config.id) EXCEPT
        !.active_agents = <<sit.parent>>,
        !.completed_agents = sit.done,
        !.invocations = [i \in DOMAIN sit.done |-> Invocation(sit.done[i], "success", 1, "")],
        !.total_tokens_used = Len(sit.done)]

RECURSIVE SituationEvents(_)
SituationEvents(ids) ==
    IF ids = <<>> THEN <<>>
    ELSE <<RuntimeEvent("AgentStarted", Head(ids), "agent_id:" \o Head(ids)),
           RuntimeEvent("AgentCompleted", Head(ids), "agent_id:" \o Head(ids) \o " tokens_used")>>
         \o SituationEvents(Tail(ids))

DelegInit ==
    \E sit \in Situations : \E req \in Requests(sit.config) :
        /\ redis_client = TRUE
        /\ patterns = FallbackPatterns
        /\ workflows = Put(<<>>, sit.config.id, sit.config)
        /\ runtime_states = Put(<<>>, Run, SituationState(sit))
        /\ dag_store = Put(<<>>, Run, BuildDag(sit.config).dag)
        /\ held_refs = {}
        /\ loops = [l \in LoopIds |->
                        IF l = 1
                        THEN [pc |-> "result", agent_id |-> sit.parent,
                              response |-> <<OkDelegating(req)>>]
                        ELSE IdleLoop]
        /\ events = SituationEvents(sit.done)
                        \o <<RuntimeEvent("AgentStarted", sit.parent, "agent_id:" \o sit.parent)>>
        /\ rx = 0
        /\ todo = <<>>
        /\ kv_state = Put(<<>>, Run, SituationState(sit))
        /\ kv_active = {Run}
        /\ kv_artifacts = [d \in Range(sit.done) |-> OkText.output[1]]
        /\ resume_pc = "idle"
        /\ stops = 0
        /\ crashes = 0
        /\ uuid = 1
        /\ replies_usable = TRUE
        /\ invoked = Range(sit.done) \cup {sit.parent}
        /\ graph = DagNew
        /\ graph_call = <<>>
        /\ thought_signatures = {Run}
        /\ start_reply = Reply(sit.config.id, 200)
        /\ cleanups = 0

DelegNext ==
    \E l \in LoopIds :
        \/ LoopHandleResult(l)
        \/ LoopGate(l)
        \/ LoopSelect(l)

DelegSpec == DelegInit /\ [][DelegNext]_vars

-----------------------------------------------------------------------------
(* POST /runtime/start with configurations that do not pass the validation *)

\* {a <- b, b <- a}
WfCycle ==
    [id |-> "wf_cycle",
     agents |-> <<Agent("a", <<"b">>, FALSE), Agent("b", <<"a">>, FALSE)>>]

\* a node that depends on itself
WfSelf == [id |-> "wf_self", agents |-> <<Agent("a", <<"a">>, FALSE)>>]

\* a dependency on an id that is not a node of the configuration
WfMissing ==
    [id |-> "wf_missing",
     agents |-> <<Agent("a", <<>>, FALSE), Agent("b", <<"a", "z">>, FALSE)>>]

Submitted == Workflows \cup {WfCycle, WfSelf, WfMissing}

StartResponses == {TransportError, OkText}

StartInit == Init /\ redis_client = TRUE /\ patterns = FallbackPatterns

StartNext ==
    \/ \E config \in Submitted : StartWorkflow(config)
    \/ \E config \in Submitted : StartRejected(config)
    \/ \E l \in LoopIds : LoopStart(l)
    \/ \E l \in LoopIds : LoopGate(l)
    \/ \E l \in LoopIds : LoopSelect(l)
    \/ \E l \in LoopIds : LoopQuiesce(l)
    \/ \E l \in LoopIds : LoopComplete(l)
    \/ \E l \in LoopIds : LoopDispatch(l)
    \/ \E l \in LoopIds : \E res \in StartResponses : WorkerReply(l, res)
    \/ \E l \in LoopIds : LoopHandleResult(l)

StartSpec == StartInit /\ [][StartNext]_vars

-----------------------------------------------------------------------------
(* A DAG value under any sequence of calls of its methods *)

DagIds == Range(SubSeq(<<"a", "b", "c", "d", "e">>, 1, MaxNodes))

Call(op, args, res, order) == [op |-> op, args |-> args, res |-> res, order |-> order]

runVars ==
    <<envVars, historyVars, outVars, workflows, runtime_states, dag_store, held_refs, loops, events,
      engineVars, kvStateVars, kv_artifacts, handlerVars, uuid>>

GraphAddNode(n) ==
    /\ graph' = add_node(graph, n)
    /\ graph_call' = Call("add_node", <<n>>, "Ok", <<>>)
    /\ UNCHANGED runVars

GraphAddEdge(u, v) ==
    /\ graph' = add_edge(graph, u, v).dag
    /\ graph_call' = Call("add_edge", <<u, v>>, add_edge(graph, u, v).res, <<>>)
    /\ UNCHANGED runVars

GraphRemoveEdge(u, v) ==
    /\ graph' = remove_edge(graph, u, v).dag
    /\ graph_call' = Call("remove_edge", <<u, v>>, remove_edge(graph, u, v).res, <<>>)
    /\ UNCHANGED runVars

GraphClearIncoming(n) ==
    /\ graph' = clear_incoming_edges(graph, n)
    /\ graph_call' = Call("clear_incoming_edges", <<n>>, "Ok", <<>>)
    /\ UNCHANGED runVars

GraphSort ==
    \E q \in InitialQueues(graph) :
        /\ graph_call' = Call("topological_sort", <<>>, topological_sort(graph, q).res,
                              topological_sort(graph, q).order)
        /\ UNCHANGED <<graph, runVars>>

DagInit == Init /\ redis_client = FALSE /\ patterns = FallbackPatterns

DagNext ==
    \/ \E n \in DagIds : GraphAddNode(n)
    \/ \E u, v \in DagIds : GraphAddEdge(u, v)
    \/ \E u, v \in DagIds : GraphRemoveEdge(u, v)
    \/ \E n \in DagIds : GraphClearIncoming(n)
    \/ GraphSort

DagSpec == DagInit /\ [][DagNext]_vars

-----------------------------------------------------------------------------
(* A run with a second root beside the delegating node, under the approval pattern *)

WfRace ==
    [id |-> "wf_race",
     agents |-> <<Agent("q", <<>>, FALSE), Agent("p", <<>>, TRUE), Agent("c", <<"p">>, FALSE)>>]

\* a batch that names the delegating node's dependent
DelegRedo == Delegation(<<Agent("c", <<>>, FALSE)>>, "Child")

RaceResponses == {TransportError, OkText, OkDelegating(DelegRedo)}

RaceInit == Init /\ redis_client = TRUE /\ patterns = ApprovalPatterns

RaceNext ==
    \/ StartWorkflow(WfRace)
    \/ \E l \in LoopIds : LoopStart(l)
    \/ \E l \in LoopIds : LoopGate(l)
    \/ \E l \in LoopIds : LoopSelect(l)
    \/ \E l \in LoopIds : LoopQuiesce(l)
    \/ \E l \in LoopIds : LoopComplete(l)
    \/ \E l \in LoopIds : LoopDispatch(l)
    \/ \E l \in LoopIds : \E res \in RaceResponses : WorkerReply(l, res)
    \/ \E l \in LoopIds : LoopHandleResult(l)
    \/ ResumeCheck
    \/ ResumeSet
    \/ EngineRecv
    \/ EngineAct

RaceSpec == RaceInit /\ [][RaceNext]_vars

-----------------------------------------------------------------------------
(* A pattern file with two patterns on the same trigger *)

\* config/cortex_patterns.json: a pause and an interrupt, both on AgentFailed
DualPatterns ==
    {Pattern("gate_retry", "AgentFailed", "*", "RequestApproval"),
     Pattern("halt_failed", "AgentFailed", "error", "Interrupt")}

EngineInit == Boot({DualPatterns}) /\ redis_client = FALSE

EngineSpec == EngineInit /\ [][RaceNext]_vars

-----------------------------------------------------------------------------
(* The status of a run *)

AllowedTransitions ==
    {<<"running", "awaiting_approval">>, <<"running", "completed">>, <<"running", "failed">>,
     <<"awaiting_approval", "running">>, <<"awaiting_approval", "failed">>}

\* C1: the status of a run changes only along running -> awaiting_approval,
\* running -> completed, running -> failed, awaiting_approval -> running and
\* awaiting_approval -> failed; a completed or failed run keeps its status.
C1_StatusTransitions ==
    [][(HasState /\ HasState' /\ St.status # St'.status)
          => <<St.status, St'.status>> \in AllowedTransitions]_vars

\* the depends_on list of a node in the stored configuration of the run
ConfigDeps(id) ==
    IF HasState /\ St.workflow_id \in DOMAIN workflows
    THEN LET found == FindAgent(workflows[St.workflow_id].agents, id)
         IN  IF found = <<>> THEN {} ELSE Range(found[1].depends_on)
    ELSE {}

\* C2: a node id enters active_agents only when every id of the node's depends_on
\* list in the configuration is already in completed_agents.
C2_ActiveAfterDependencies ==
    [][(HasState /\ HasState')
          => \A id \in Range(St'.active_agents) \ Range(St.active_agents) :
                ConfigDeps(id) \subseteq Range(St.completed_agents)]_vars

\* C3: active_agents, completed_agents and failed_agents of a run never share a
\* node id.
C3_ListsDisjoint ==
    HasState =>
        /\ Range(St.active_agents) \cap Range(St.completed_agents) = {}
        /\ Range(St.active_agents) \cap Range(St.failed_agents) = {}
        /\ Range(St.completed_agents) \cap Range(St.failed_agents) = {}

\* C4: end_time is set exactly when the status is completed or failed.
C4_EndTimeIffTerminal == HasState => (St.end_time <=> Terminal(St.status))

\* C5: once the operator has stopped a run, the run is failed and the record of the
\* stop stays the last invocation record, whatever the scheduler was doing.
C5_StopIsFinal ==
    (stops > 0 /\ HasState) =>
        /\ St.status = "failed"
        /\ St.invocations # <<>>
        /\ St.invocations[Len(St.invocations)].agent_id = "OPERATOR"

-----------------------------------------------------------------------------
(* The scheduler on a chain, a drought and a rejected reply *)

IsPrefix(s, t) == Len(s) <= Len(t) /\ s = SubSeq(t, 1, Len(s))

SuccessOrder(st) ==
    LET ok == SelectSeq(st.invocations, LAMBDA inv : inv.status = "success")
    IN  [i \in DOMAIN ok |-> ok[i].agent_id]

\* a run of the chain a, b after a, c after b that nobody disturbs and whose worker
\* replies were all successes with usable text
C6_Case ==
    /\ HasState /\ St.workflow_id = WfLinear.id
    /\ patterns = FallbackPatterns
    /\ replies_usable
    /\ stops = 0 /\ crashes = 0

LoopsAtRest == \A l \in LoopIds : loops[l].pc \in {"idle", "done", "parked"}

\* C6: the chain a, b, c with successful, usable worker replies records its success
\* invocations in the order a, b, c, and when its scheduler has no step left the run
\* is completed with completed_agents = [a, b, c].
C6_LinearChainCompletes ==
    C6_Case =>
        /\ IsPrefix(SuccessOrder(St), <<"a", "b", "c">>)
        /\ St.completed_agents = SuccessOrder(St)
        /\ LoopsAtRest => (St.status = "completed" /\ St.completed_agents = <<"a", "b", "c">>)

\* the pre-flight drought check fires for the node a loop is about to send
DroughtFires(l) ==
    /\ HasState
    /\ loops[l].pc = "dispatch"
    /\ St.workflow_id \in DOMAIN workflows
    /\ LET found == FindAgent(workflows[St.workflow_id].agents, loops[l].agent_id)
       IN  found # <<>> /\ context_drought(found[1])

Sent(type) == \E i \in (Len(events) + 1)..Len(events') : events'[i].event_type = type

\* C7: when the drought check fires for a node, the step pauses the run: the status
\* becomes awaiting_approval, SystemIntervention is emitted, the node does not go to
\* the worker and is not added to failed_agents.
C7_DroughtPauses ==
    [][\A l \in LoopIds :
          (DroughtFires(l) /\ loops'[l] # loops[l] /\ HasState' /\ crashes' = crashes)
             => /\ St'.status = "awaiting_approval"
                /\ Sent("SystemIntervention")
                /\ loops'[l].pc # "invoke"
                /\ ~VecContains(St'.failed_agents, loops[l].agent_id)]_vars

\* an answer that is unsuccessful, a semantic null, or a protocol violation
Rejected(agent_id, res) ==
    LET text == ResultText(res)
    IN  \/ ~res.success
        \/ Contains(text, "[STATUS: NULL]")
        \/ /\ ~Contains(text, "[BYPASS:")
           /\ \/ StartsWith(agent_id, "research_") /\ ~Contains(text, "web_search")
              \/ /\ StartsWith(agent_id, "analyze_") \/ StartsWith(agent_id, "coder_")
                 /\ ~Contains(text, "execute_python")

\* C8: the scheduler step that handles a rejected worker answer sets the status to
\* awaiting_approval, emits AgentFailed for the node as its last event, leaves
\* completed_agents alone and ends the loop.
C8_CircuitBreaker ==
    [][\A l \in LoopIds :
          (/\ loops[l].pc = "result" /\ loops'[l] # loops[l]
           /\ HasState /\ HasState' /\ crashes' = crashes
           /\ loops[l].response[1].transport_ok
           /\ Rejected(loops[l].agent_id, loops[l].response[1]))
             => /\ St'.status = "awaiting_approval"
                /\ Len(events') > Len(events)
                /\ events'[Len(events')].event_type = "AgentFailed"
                /\ events'[Len(events')].agent_id = loops[l].agent_id
                /\ St'.completed_agents = St.completed_agents
                /\ loops'[l].pc = "done"]_vars

\* the circuit breaker has paused a run on a protocol violation
C8_Witness ==
    /\ HasState /\ St.status = "awaiting_approval"
    /\ \E l \in LoopIds : loops[l].pc = "done" /\ VecContains(St.active_agents, loops[l].agent_id)
    /\ events # <<>>
    /\ events[Len(events)].event_type = "AgentFailed"
    /\ events[Len(events)].payload = "error:Protocol Violation"

-----------------------------------------------------------------------------
(* resume_run and the active list *)

Untouched ==
    /\ runtime_states' = runtime_states /\ loops' = loops /\ events' = events
    /\ dag_store' = dag_store /\ workflows' = workflows

\* C9: resume_run passes its checks only for a run whose graph is in memory and whose
\* status is awaiting_approval; the accepted call then sets the status to running and
\* spawns one scheduler loop at the top of its iteration; a call answered 404 (no
\* graph) or 400 (not paused) changes nothing, and no loop is spawned any other way
\* once the run exists.
C9_Resume ==
    [][/\ (resume_pc # "checked" /\ resume_pc' = "checked")
            => (has_dag /\ HasState /\ St.status = "awaiting_approval" /\ Untouched)
       /\ (resume_pc # "200" /\ resume_pc' = "200")
            => /\ resume_pc = "checked"
               /\ HasState' /\ St'.status = "running"
               /\ \E l \in LoopIds :
                     loops[l].pc = "idle" /\ loops' = [loops EXCEPT ![l].pc = "gate"]
       /\ (resume_pc # "404" /\ resume_pc' = "404") => (~has_dag /\ Untouched)
       /\ (resume_pc # "400" /\ resume_pc' = "400")
            => (has_dag /\ ~(HasState /\ St.status = "awaiting_approval") /\ Untouched)
       /\ (\E l \in LoopIds : loops[l].pc = "idle" /\ loops'[l].pc = "gate")
            => resume_pc = "checked"]_vars

\* an accepted resume has just set the run running and spawned a second loop
C9_Witness ==
    /\ resume_pc = "200"
    /\ HasState /\ St.status = "running"
    /\ \E l \in LoopIds : loops[l].pc = "gate" /\ loops[l].agent_id = NoAgent
    /\ events # <<>> /\ events[Len(events)].payload = "action:resume"

\* C10: at every moment at most one node id is in active_agents.
C10_OneActive == HasState => Cardinality(Range(St.active_agents)) <= 1

\* C11: within one run each node is handed to the worker at most once, and its id
\* appears at most once in completed_agents, whatever pauses, resumes and scheduler
\* loops interleave.
NoDuplicates(seq) == \A i, j \in DOMAIN seq : seq[i] = seq[j] => i = j
SendsFresh ==
    \A l \in LoopIds :
        (loops[l].pc = "dispatch" /\ loops'[l].pc = "invoke") => loops[l].agent_id \notin invoked
C11_InvokedOnce ==
    /\ [](HasState => NoDuplicates(St.completed_agents))
    /\ [][SendsFresh]_vars

-----------------------------------------------------------------------------
(* The delegation splice *)

Dag == dag_store[Run]
Agents == workflows[St.workflow_id].agents

parents(dag, id) == {e[1] : e \in {f \in export_edges(dag) : f[2] = id}}

Sorts(dag) == \A q \in InitialQueues(dag) : topological_sort(dag, q).res = "Ok"

\* loop l holds a successful, accepted worker response that carries a delegation
HoldsDelegation(l) ==
    /\ loops[l].pc = "result" /\ HasState /\ has_dag
    /\ loops[l].response[1].transport_ok
    /\ Accepted(loops[l].agent_id, loops[l].response[1])
    /\ loops[l].response[1].delegation # <<>>

\* the step in which loop l handles that response, for a node that may delegate
Delegates(l) ==
    HoldsDelegation(l) /\ can_delegate(loops[l].agent_id) /\ loops'[l].pc = "gate"

Request(l) == loops[l].response[1].delegation[1]

\* the delegation went through: its parent is completed by the same step
Succeeds(l) == St'.completed_agents = Append(St.completed_agents, loops[l].agent_id)

\* the dependents the parent had when it delegated
Dependents(l) == Range(get_children(Dag, loops[l].agent_id))

\* the requested ids that name a pending node of the graph
UpdatedIds(l) ==
    {id \in {Request(l).new_nodes[i].id : i \in DOMAIN Request(l).new_nodes} :
        id \in Dag.nodes /\ is_pending(St, id)}

\* the ids under which the step has put the requested nodes into the workflow
NewIds(l) == ({Agents'[i].id : i \in DOMAIN Agents'} \ Dag.nodes) \cup UpdatedIds(l)

DependsOn(agents, id) == Range(FindAgent(agents, id)[1].depends_on)

\* C12: after a successful Child delegation by P with new nodes N and previous
\* dependents C, every c in C has every node of N as a parent and no longer P, every
\* n in N that declared no parent other than P is a child of P, and the graph sorts.
ChildSpliced(l) ==
    LET P == loops[l].agent_id
    IN  /\ \A c \in Dependents(l) :
              NewIds(l) \subseteq parents(Dag', c) /\ P \notin parents(Dag', c)
        /\ \A n \in NewIds(l) :
              DependsOn(Agents', n) \subseteq {P} => P \in parents(Dag', n)
        /\ Sorts(Dag')

C12_ChildSplice ==
    [][\A l \in LoopIds :
          (Delegates(l) /\ Request(l).strategy = "Child" /\ Succeeds(l)) => ChildSpliced(l)]_vars

C12_Witness ==
    /\ HasState /\ has_dag /\ St.workflow_id = WfFan.id
    /\ St.completed_agents = <<"p">>
    /\ parents(Dag, "c") = {"x", "y"}
    /\ parents(Dag, "d") = {"x", "y"}
    /\ parents(Dag, "x") = {"p"}

\* the workflow {p, c after p} whose node p asks for the batch x, y after x as children
ChainCase(l) ==
    /\ Delegates(l) /\ Succeeds(l)
    /\ St.workflow_id = WfDeleg.id /\ Agents = WfDeleg.agents
    /\ Request(l) = DelegChain

\* C13: in that case the edges afterwards are exactly p -> x, x -> y, y -> c (no p -> c
\* and no x -> c), and the depends_on of c is exactly [y].
C13_ChainSplice ==
    [][\A l \in LoopIds :
          ChainCase(l) =>
              /\ export_edges(Dag') = {<<"p", "x">>, <<"x", "y">>, <<"y", "c">>}
              /\ FindAgent(Agents', "c")[1].depends_on = <<"y">>]_vars

\* C13 as the code has it: every new node becomes a parent of the old dependent, so the
\* edges are p -> x, x -> y, x -> c, y -> c (no p -> c) and the depends_on of c is [x, y].
C13_ChainSpliceAllParents ==
    [][\A l \in LoopIds :
          ChainCase(l) =>
              /\ export_edges(Dag') = {<<"p", "x">>, <<"x", "y">>, <<"x", "c">>, <<"y", "c">>}
              /\ FindAgent(Agents', "c")[1].depends_on = <<"x", "y">>]_vars

C13_Witness ==
    /\ HasState /\ has_dag /\ St.workflow_id = WfDeleg.id
    /\ St.completed_agents = <<"p">>
    /\ export_edges(Dag) = {<<"p", "x">>, <<"x", "y">>, <<"x", "c">>, <<"y", "c">>}
    /\ FindAgent(Agents, "c")[1].depends_on = <<"x", "y">>

\* the dependents keep their parents and their depends_on
DependentsKept(l, cs) ==
    \A c \in cs :
        /\ parents(Dag', c) = parents(Dag, c)
        /\ FindAgent(Agents', c) = FindAgent(Agents, c)

\* each new node that declares no parent, or declares the parent, is a child of it
AttachedToParent(l) ==
    LET P == loops[l].agent_id
    IN  \A n \in NewIds(l) :
            (DependsOn(Agents', n) = {} \/ P \in DependsOn(Agents', n)) => P \in parents(Dag', n)

\* C14: after a Sibling delegation by P every previous dependent of P keeps exactly the
\* parents and the depends_on it had, and each new node that declares no parent or
\* declares P is a child of P.
C14_SiblingFrame ==
    [][\A l \in LoopIds :
          (Delegates(l) /\ Request(l).strategy = "Sibling") =>
              DependentsKept(l, Dependents(l)) /\ AttachedToParent(l)]_vars

\* C14 with the update of a pending node set apart: after a Sibling delegation by P
\* every previous dependent of P that no delegated node names keeps exactly the parents
\* and the config it had, and each new node that declares no parent or declares P is a
\* child of P.
C14_SiblingFrameUnnamed ==
    [][\A l \in LoopIds :
          (Delegates(l) /\ Request(l).strategy = "Sibling") =>
              DependentsKept(l, Dependents(l) \ UpdatedIds(l)) /\ AttachedToParent(l)]_vars

C14_Witness ==
    /\ HasState /\ has_dag /\ St.workflow_id = WfFan.id
    /\ St.completed_agents = <<"p">>
    /\ export_edges(Dag) = {<<"p", "c">>, <<"p", "d">>, <<"p", "x">>, <<"x", "y">>}
    /\ FindAgent(Agents, "c")[1].depends_on = <<"p">>

\* a recorded dependency list is the requested one, up to the renaming of collided ids
SameDeps(recorded, requested) ==
    /\ Len(recorded) = Len(requested)
    /\ \A j \in DOMAIN requested :
          recorded[j] = requested[j] \/ StartsWith(recorded[j], requested[j] \o "_")

\* the workflow holds exactly one config for id, the requested one
Replaced(l, id) ==
    /\ Cardinality({i \in DOMAIN Agents' : Agents'[i].id = id}) = 1
    /\ \A k \in DOMAIN Request(l).new_nodes :
          Request(l).new_nodes[k].id = id =>
              /\ FindAgent(Agents', id)[1].allow_delegation = Request(l).new_nodes[k].allow_delegation
              /\ SameDeps(FindAgent(Agents', id)[1].depends_on, Request(l).new_nodes[k].depends_on)

\* the incoming edges of id are those its config declares, plus the parent linkage
Rewired(l, id) ==
    parents(Dag', id) =
        DependsOn(Agents', id) \cup (IF DependsOn(Agents', id) = {} THEN {loops[l].agent_id} ELSE {})

\* C15: a delegated node whose id is the id of a pending node of the graph updates that
\* node: afterwards the workflow holds exactly one config for the id, the new one; the
\* node's incoming edges are those the new config declares (plus the parent linkage);
\* and the graph sorts with all its nodes.
C15_PendingUpdate ==
    [][\A l \in LoopIds :
          Delegates(l) =>
              \A id \in UpdatedIds(l) :
                  Replaced(l, id) /\ Rewired(l, id) /\ Sorts(Dag')]_vars

AgentIds(agents) == {agents[i].id : i \in DOMAIN agents}

IsFresh(id, old) == StartsWith(id, old \o "_") /\ id \notin AgentIds(Agents) \cup Dag.nodes

\* the config the step has recorded for the k-th node of the request
Recorded(l, k) == Agents'[Len(Agents') - Len(Request(l).new_nodes) + k]

SameMembership(id) ==
    /\ VecContains(St'.active_agents, id) = VecContains(St.active_agents, id)
    /\ VecContains(St'.completed_agents, id) = VecContains(St.completed_agents, id)
    /\ VecContains(St'.failed_agents, id) = VecContains(St.failed_agents, id)

\* the k-th requested node carries the id `old` of a node that has started
Renamed(l, k, old) ==
    LET new_nodes == Request(l).new_nodes
    IN  /\ IsFresh(Recorded(l, k).id, old)
        /\ \A j \in DOMAIN new_nodes :
              old \in Range(new_nodes[j].depends_on) =>
                  /\ old \notin Range(Recorded(l, j).depends_on)
                  /\ \E d \in Range(Recorded(l, j).depends_on) : IsFresh(d, old)
        /\ FindAgent(Agents', old) = FindAgent(Agents, old)
        /\ parents(Dag', old) = parents(Dag, old)
        /\ old # loops[l].agent_id => SameMembership(old)

\* C16: a delegated node whose id is the id of an active, completed or failed node is
\* added under a fresh id old_id + "_" + suffix, the references to the old id inside
\* the batch are rewritten to a fresh id, and the existing node keeps its config, its
\* incoming edges and its place in active, completed or failed (the delegating node
\* itself moves from active to completed by its own completion).
C16_RenameKeepsHistory ==
    [][\A l \in LoopIds :
          Delegates(l) =>
              \A k \in DOMAIN Request(l).new_nodes :
                  LET old == Request(l).new_nodes[k].id
                  IN  (old \in Dag.nodes /\ ~is_pending(St, old)) => Renamed(l, k, old)]_vars

-----------------------------------------------------------------------------
(* The permission gate *)

\* the config of the responding node has allow_delegation false
Forbidden(l) ==
    /\ St.workflow_id \in DOMAIN workflows
    /\ FindAgent(Agents, loops[l].agent_id) # <<>>
    /\ ~FindAgent(Agents, loops[l].agent_id)[1].allow_delegation

\* C17: when a successful worker response carries a delegation and the responding
\* node's allow_delegation is false, the graph and the workflow config stay as they
\* are and the node is recorded as a normal success: appended to completed_agents,
\* a success invocation recorded, AgentCompleted emitted.
C17_PermissionGate ==
    [][\A l \in LoopIds :
          (HoldsDelegation(l) /\ Forbidden(l) /\ loops'[l].pc = "gate") =>
              /\ dag_store' = dag_store
              /\ workflows' = workflows
              /\ St'.completed_agents = Append(St.completed_agents, loops[l].agent_id)
              /\ St'.invocations =
                    Append(St.invocations, Invocation(loops[l].agent_id, "success", 1, ""))
              /\ Len(events') = Len(events) + 1
              /\ events'[Len(events')].event_type = "AgentCompleted"
              /\ events'[Len(events')].agent_id = loops[l].agent_id]_vars

\* node a of the chain a, b, c, which may not delegate, has answered with a delegation
C17_Witness ==
    /\ HasState /\ has_dag /\ St.workflow_id = WfLinear.id
    /\ St.completed_agents = <<"a">> /\ St.status = "running"
    /\ Agents = WfLinear.agents
    /\ Dag = BuildDag(WfLinear).dag
    /\ events[Len(events)] = RuntimeEvent("AgentCompleted", "a", "agent_id:a tokens_used")
    /\ loops[1].pc = "gate"

-----------------------------------------------------------------------------
(* The graph as a relation *)

\* the nodes one or more edges away from the nodes of `from`
RECURSIVE Closure(_, _, _)
Closure(dag, from, seen) ==
    LET next == UNION {Range(get_children(dag, n)) : n \in from} \ seen
    IN  IF next = {} THEN seen ELSE Closure(dag, next, seen \cup next)

Reachable(dag, n) == Closure(dag, {n}, {})

Acyclic(dag) == \A n \in dag.nodes \cup DOMAIN dag.edges : n \notin Reachable(dag, n)

\* C18: whatever add_node, add_edge, remove_edge, clear_incoming_edges and delegation
\* splices (gone through or failed part-way) have been applied, the graph is acyclic,
\* and the scheduler never fails a run over a cycle found by its sort.
C18_AlwaysAcyclic ==
    /\ Acyclic(graph)
    /\ has_dag => Acyclic(Dag)
    /\ HasState => \A i \in DOMAIN St.invocations : St.invocations[i].agent_id # "SYSTEM"

\* a delegation has failed part-way and has left its first nodes and edges in the graph
C18_Witness ==
    /\ HasState /\ has_dag /\ St.workflow_id = WfFan.id
    /\ St.status = "failed"
    /\ St.invocations[Len(St.invocations)].error_message = "Delegation error"
    /\ export_edges(Dag) = {<<"p", "c">>, <<"p", "d">>, <<"p", "x">>,
                           <<"x", "c">>, <<"x", "d">>,
                           <<"d", "y">>, <<"y", "c">>}

-----------------------------------------------------------------------------
(* dag.rs: the sort and the cycle check *)

Sorted == graph_call # <<>> /\ graph_call.op = "topological_sort"

Position(order, n) == CHOOSE i \in DOMAIN order : order[i] = n

\* C19: on a graph reached by any sequence of calls, topological_sort succeeds exactly
\* when the graph is acyclic, and a successful sort returns every registered node once
\* with the source of every edge before its target; the chain a -> b -> c gives a, b, c.
C19_TopologicalSort ==
    Sorted =>
        /\ graph_call.res = "Ok" <=> Acyclic(graph)
        /\ graph_call.res = "Ok" =>
              /\ Len(graph_call.order) = Cardinality(graph.nodes)
              /\ Range(graph_call.order) = graph.nodes
              /\ \A e \in export_edges(graph) :
                    Position(graph_call.order, e[1]) < Position(graph_call.order, e[2])
        /\ (graph.nodes = {"a", "b", "c"}
                /\ export_edges(graph) = {<<"a", "b">>, <<"b", "c">>}) =>
              graph_call.order = <<"a", "b", "c">>

\* test_topological_sort
C19_Witness ==
    /\ Sorted
    /\ graph.nodes = {"a", "b", "c"}
    /\ export_edges(graph) = {<<"a", "b">>, <<"b", "c">>}
    /\ graph_call.res = "Ok" /\ graph_call.order = <<"a", "b", "c">>

\* C20: add_edge(u, v) on registered nodes u, v with a path from v to u (u = v
\* included) returns CycleDetected and leaves the node set and the edges as they were.
C20_CycleRefused ==
    [][\A u, v \in graph.nodes :
          (/\ graph_call' # <<>>
           /\ graph_call'.op = "add_edge" /\ graph_call'.args = <<u, v>>
           /\ graph_call' # graph_call \/ graph' # graph
           /\ u = v \/ u \in Reachable(graph, v)) =>
              /\ graph_call'.res = "CycleDetected"
              /\ graph' = graph]_vars

\* test_cycle_detection
C20_Witness ==
    /\ graph_call = Call("add_edge", <<"b", "a">>, "CycleDetected", <<>>)
    /\ graph.nodes = {"a", "b"}
    /\ export_edges(graph) = {<<"a", "b">>}

\* the number of entries of u's adjacency list that name v
Occurrences(dag, u, v) ==
    Cardinality({i \in DOMAIN get_children(dag, u) : get_children(dag, u)[i] = v})

\* C21: after add_edge(u, v) has returned success, a second add_edge(u, v) returns
\* success too and leaves the graph as the first call left it, with the edge u -> v
\* in it exactly once.
C21_AddEdgeIdempotent ==
    (graph_call # <<>> /\ graph_call.op = "add_edge" /\ graph_call.res = "Ok") =>
        LET u == graph_call.args[1]
            v == graph_call.args[2]
            again == add_edge(graph, u, v)
        IN  /\ again.res = "Ok"
            /\ again.dag = graph
            /\ Occurrences(graph, u, v) = 1
            /\ Occurrences(again.dag, u, v) = 1

\* test_idempotency
C21_Witness ==
    /\ graph_call = Call("add_edge", <<"a", "b">>, "Ok", <<>>)
    /\ graph.nodes = {"a", "b"}
    /\ graph.edges = [k \in {"a"} |-> <<"b">>]

\* C22: clear_incoming_edges(n) leaves n without parents, removes exactly the edges
\* that targeted n (the outgoing edges of n stay) and keeps the node set.
C22_ClearIncoming ==
    [][\A n \in DagIds :
          (/\ graph_call' # <<>>
           /\ graph_call'.op = "clear_incoming_edges" /\ graph_call'.args = <<n>>
           /\ graph_call' # graph_call \/ graph' # graph) =>
              /\ get_dependencies(graph', n) = {}
              /\ export_edges(graph') = {e \in export_edges(graph) : e[2] # n}
              /\ export_nodes(graph') = export_nodes(graph)]_vars

\* test_clear_incoming_edges on three nodes: a -> b -> c, then the clear of b
C22_Witness ==
    /\ graph_call = Call("clear_incoming_edges", <<"b">>, "Ok", <<>>)
    /\ graph.nodes = {"a", "b", "c"}
    /\ export_edges(graph) = {<<"b", "c">>}
    /\ "a" \in DOMAIN graph.edges /\ graph.edges["a"] = <<>>

\* the declared dependencies of a configuration as pairs <<dependency, node>>
DeclaredEdges(config) ==
    UNION {{<<d, config.agents[i].id>> : d \in Range(config.agents[i].depends_on)} :
              i \in DOMAIN config.agents}

\* the ids one or more declared dependencies downstream of the ids of `from`
RECURSIVE Downstream(_, _, _)
Downstream(E, from, seen) ==
    LET next == {e[2] : e \in {f \in E : f[1] \in from}} \ seen
    IN  IF next = {} THEN seen ELSE Downstream(E, next, seen \cup next)

\* a configuration whose dependencies name an unknown node or form a cycle
Invalid(config) ==
    \/ \E e \in DeclaredEdges(config) : e[1] \notin ConfigIds(config)
    \/ \E n \in ConfigIds(config) : n \in Downstream(DeclaredEdges(config), {n}, {})

\* C23: a start request whose configuration has cyclic dependencies or names a node
\* that is not in the configuration is answered with an error (400) and creates
\* nothing: no run state, no graph, no signature store, no stored configuration and
\* no scheduler task.
C23_InvalidStartRejected ==
    [][\A config \in Submitted :
          (/\ Invalid(config)
           /\ start_reply' # start_reply
           /\ start_reply'.config = config.id) =>
              /\ start_reply'.status = 400
              /\ UNCHANGED <<workflows, runtime_states, dag_store, thought_signatures, loops,
                             kv_state, kv_active, events>>]_vars

\* {a <- b, b <- a} was answered 400 and the kernel holds nothing
C23_Witness ==
    /\ start_reply = Reply(WfCycle.id, 400)
    /\ workflows = <<>> /\ runtime_states = <<>> /\ dag_store = <<>>
    /\ thought_signatures = {}
    /\ \A l \in LoopIds : loops[l] = IdleLoop

-----------------------------------------------------------------------------
(* Failure handling, cleanup and recovery *)

\* the run is in runtime_states
RunInMemory == Run \in DOMAIN runtime_states

\* loop l handles a worker call that failed in transport
TransportFails(l) ==
    /\ loops[l].pc = "result" /\ loops'[l].pc # "result"
    /\ ~loops[l].response[1].transport_ok

LastInvocation(st) == st.invocations[Len(st.invocations)]

\* the run's newest record is the failed invocation of a transport error
FailedInTransport(st) ==
    /\ st.status = "failed"
    /\ st.invocations # <<>>
    /\ LastInvocation(st).status = "failed"
    /\ LastInvocation(st).error_message = "transport error"

\* C24: when the worker call for node n fails in transport, the status becomes failed,
\* n moves from active to failed, a failed invocation with the error is recorded,
\* AgentFailed is emitted for n, cleanup is scheduled and the loop goes to its status
\* check; from then on the status stays failed, so that check ends the loop.
C24_TransportFailure ==
    /\ [][\A l \in LoopIds :
            TransportFails(l) =>
                LET n == loops[l].agent_id
                IN  /\ St'.status = "failed"
                    /\ ~VecContains(St'.active_agents, n)
                    /\ VecContains(St'.failed_agents, n)
                    /\ Len(St'.invocations) = Len(St.invocations) + 1
                    /\ LastInvocation(St').agent_id = n
                    /\ FailedInTransport(St')
                    /\ events' # <<>>
                    /\ events'[Len(events')].event_type = "AgentFailed"
                    /\ events'[Len(events')].agent_id = n
                    /\ cleanups' = cleanups + 1
                    /\ loops'[l].pc = "gate"]_vars
    /\ [][(HasState /\ FailedInTransport(St) /\ RunInMemory') => St'.status = "failed"]_vars
    /\ [][\A l \in LoopIds :
            (HasState /\ FailedInTransport(St) /\ loops[l].pc = "gate" /\ loops'[l].pc # "gate")
                => loops'[l].pc = "done"]_vars

\* C25: every step that takes the run from a non-terminal status to completed or
\* failed (quiescence, transport error, payload error, delegation error, operator
\* stop, pattern Interrupt) makes one cleanup call for the run.
C25_TerminalSchedulesCleanup ==
    [][(/\ HasState /\ RunInMemory'
        /\ crashes' = crashes
        /\ ~Terminal(St.status) /\ Terminal(St'.status)) => cleanups' = cleanups + 1]_vars

\* the kernel has just booted: this step is the restart with its rehydration
Reboots == crashes' = crashes + 1

\* the saved state of the run, when its id is in sys:active_runs
SavedActive == redis_client /\ Run \in kv_active /\ Run \in DOMAIN kv_state

C27_CrashWhileRunning ==
    [][(Reboots /\ redis_client /\ HasState /\ St.status = "running") =>
          (RunInMemory' /\ St'.status = "failed")]_vars

\* the run's id is in sys:active_runs exactly when its saved status is not terminal
IndexMatchesSaved ==
    (redis_client /\ Run \in DOMAIN kv_state) =>
        (Run \in kv_active <=> ~Terminal(kv_state[Run].status))

\* C28: the run's id is in sys:active_runs exactly while its last known status is not
\* terminal: a save of a non-terminal state adds it, a save of a completed or failed
\* state removes it, and once crash recovery has rewritten a running run to failed
\* the id is no longer in the set.
C28_ActiveIndex ==
    /\ []IndexMatchesSaved
    /\ [][(Reboots /\ SavedActive /\ kv_state[Run].status = "running") =>
             (St'.status = "failed" /\ Run \notin kv_active')]_vars

\* a run without a KV client whose workflow has dependencies, that nobody stops or
\* interrupts, and whose worker replies were all successes with usable text
C29_Case ==
    /\ ~redis_client
    /\ HasState /\ St.workflow_id \in DOMAIN workflows
    /\ \E i \in DOMAIN Agents : Agents[i].depends_on # <<>>
    /\ patterns = FallbackPatterns
    /\ replies_usable
    /\ stops = 0 /\ crashes = 0

\* C29: running without the KV never by itself makes the run failed or paused, and
\* the scheduler keeps dispatching: when it has no step left, the run of a workflow
\* with dependencies whose worker calls all succeeded with usable output is completed.
C29_RunsWithoutKv ==
    C29_Case =>
        /\ St.status \notin {"failed", "awaiting_approval"}
        /\ LoopsAtRest => St.status = "completed"

\* the number of events of the given types for node n among the first k on the bus
Emitted(types, n, k) ==
    Cardinality({i \in 1..k : events[i].event_type \in types /\ events[i].agent_id = n})

\* C30: for every node and every dispatch of it, AgentStarted is on the bus before the
\* AgentCompleted or AgentFailed of that dispatch: every such event of a node is
\* preceded by more AgentStarted events of the node than earlier such events.
C30_StartedFirst ==
    \A i \in DOMAIN events :
        events[i].event_type \in {"AgentCompleted", "AgentFailed"} =>
            Emitted({"AgentStarted"}, events[i].agent_id, i - 1)
                > Emitted({"AgentCompleted", "AgentFailed"}, events[i].agent_id, i - 1)

\* a was started and completed, b was started and failed
C30_Witness ==
    /\ Len(events) >= 4
    /\ events[1].event_type = "AgentStarted" /\ events[1].agent_id = "a"
    /\ events[2].event_type = "AgentCompleted" /\ events[2].agent_id = "a"
    /\ events[3].event_type = "AgentStarted" /\ events[3].agent_id = "b"
    /\ events[Len(events)].event_type = "AgentFailed" /\ events[Len(events)].agent_id = "b"

-----------------------------------------------------------------------------
(* Pauses, the pattern engine and locks *)

\* C31: while the run's status is awaiting_approval (set by request_approval, from the
\* pattern engine or from the scheduler) no scheduler step marks a node active or
\* hands a node to the worker; only a resume, which sets running, lets that happen.
C31_PausedNoDispatch ==
    [][(/\ HasState /\ RunInMemory'
        /\ crashes' = crashes
        /\ St.status = "awaiting_approval") =>
            /\ invoked' = invoked
            /\ Range(St'.active_agents) \subseteq Range(St.active_agents)]_vars

\* the engine executes the action at the head of its list for the event it received
EngineExecutes == todo # <<>> /\ todo' = Tail(todo) /\ crashes' = crashes

\* C32: for one inbound event the engine executes the action of at most one pattern,
\* the first that matches: every action it executes is the first one executed for
\* the event received, with all the event's matches still ahead of it.
C32_FirstHitOnly ==
    [][EngineExecutes => Len(todo) = Cardinality(Matched(events[rx]))]_vars

-----------------------------------------------------------------------------
(* Delegations that fail, and the edges of those that go through *)

\* what handle_delegation returns for the response loop l holds
Delegated(l) == handle_delegation(St, Agents, Dag, loops[l].agent_id, Request(l), uuid)

\* the run's newest record is the failed invocation of a delegation error
FailedInDelegation(st) ==
    /\ st.status = "failed"
    /\ st.invocations # <<>>
    /\ LastInvocation(st).status = "failed"
    /\ LastInvocation(st).error_message = "Delegation error"

\* C33: when handle_delegation returns an error, the run becomes failed, the parent
\* moves from active to failed with a failed invocation carrying the error and is not
\* added to completed, the graph and config mutations made so far stay, and no
\* further node is dispatched.
C33_DelegationError ==
    /\ [][\A l \in LoopIds :
            (Delegates(l) /\ Delegated(l).res # "Ok") =>
                LET P == loops[l].agent_id
                IN  /\ FailedInDelegation(St')
                    /\ LastInvocation(St').agent_id = P
                    /\ Len(St'.invocations) = Len(St.invocations) + 1
                    /\ ~VecContains(St'.active_agents, P)
                    /\ VecContains(St'.failed_agents, P)
                    /\ St'.completed_agents = St.completed_agents
                    /\ Agents' = Delegated(l).agents
                    /\ Dag' = Delegated(l).dag]_vars
    /\ [][(HasState /\ RunInMemory' /\ FailedInDelegation(St)) =>
             /\ invoked' = invoked
             /\ Range(St'.active_agents) \subseteq Range(St.active_agents)]_vars

\* C34: after a successful delegation, every new node n has, for every id d of its
\* depends_on (as the workflow config lists it after the step) that names another
\* node of the graph, the edge d -> n in the graph, whatever the order of the batch.
C34_DeclaredEdges ==
    [][\A l \in LoopIds :
          (Delegates(l) /\ Succeeds(l)) =>
              \A n \in NewIds(l) :
                  \A d \in (DependsOn(Agents', n) \cap Dag'.nodes) \ {n} :
                      d \in parents(Dag', n)]_vars

\* C35: no task asks for the write lock of the run's state entry while it still holds
\* a read lock (a Ref) of that entry: no scheduler iteration is parked on get_mut
\* behind its own Ref.
C35_NoSelfDeadlock ==
    \A l \in LoopIds : loops[l].pc = "parked" => l \notin held_refs

\* the positions at which a scheduler task is suspended in an await: the worker RPC,
\* and the nested request_approval call of the drought path
Suspended(l) == loops[l].pc \in {"invoke", "parked"}

\* C36: at every suspension point the executing task holds no lock on the run-state
\* map: no Ref of the run's state is held by a task other than one that runs.
C36_NoLockAcrossAwait ==
    \A l \in held_refs : ~Suspended(l)

-----------------------------------------------------------------------------
(* Two runs in one kernel.  The kernel has no KV client here, so persist_state and
   store_artifact write nothing, and the iterations followed are those of nodes
   without upstream, whose payload needs no context. *)

RunIds == {Run, "r2"}

\* wf_deleg as a second client submits it: the same workflow id, p may not delegate
WfDelegLocked ==
    [id |-> "wf_deleg",
     agents |-> <<Agent("p", <<>>, FALSE), Agent("c", <<"p">>, FALSE)>>]

TwinWorkflows == {WfPair, WfDeleg, WfDelegLocked}

\* the answers of the worker: plain, or with a delegation of one node, new or pending
TwinRequests ==
    {Delegation(<<Agent(id, deps, FALSE)>>, strategy) :
        id \in {"x", "c"}, deps \in {<<>>, <<"p">>}, strategy \in {"Child", "Sibling"}}

TwinResponses == {OkText} \cup {OkDelegating(req) : req \in TwinRequests}

twinFrame ==
    <<envVars, graphVars, historyVars, cleanups, held_refs, loops, engineVars, kvStateVars,
      kv_artifacts, handlerVars>>

\* start_workflow, Uuid::new_v4() being r
TwinStart(r, config) ==
    /\ r \notin DOMAIN runtime_states
    /\ BuildDag(config).res = "Ok"
    /\ workflows' = Put(workflows, config.id, config)
    /\ dag_store' = Put(dag_store, r, BuildDag(config).dag)
    /\ runtime_states' = Put(runtime_states, r, NewState(config.id))
    /\ thought_signatures' = thought_signatures \cup {r}
    /\ start_reply' = Reply(config.id, 200)
    /\ UNCHANGED <<twinFrame, events, uuid>>

\* one iteration of execute_dynamic_dag for run r, from the selection to the handling
\* of the worker's answer res
TwinIterate(r, res) ==
    /\ r \in DOMAIN runtime_states /\ r \in DOMAIN dag_store
    /\ runtime_states[r].status = "running"
    /\ runtime_states[r].workflow_id \in DOMAIN workflows
    /\ \E q \in InitialQueues(dag_store[r]) :
         LET st == runtime_states[r]
             dag == dag_store[r]
             agents == workflows[st.workflow_id].agents
             sorted == topological_sort(dag, q)
             next == FirstReady(st, dag, sorted.order)
         IN  /\ sorted.res = "Ok" /\ next # <<>>
             /\ LET agent_id == next[1]
                    found == FindAgent(agents, agent_id)
                    marked == update_agent_status(st, agent_id)
                    done == record_invocation(marked,
                                Invocation(agent_id, "success", res.tokens_used, ""))
                    started == RuntimeEvent("AgentStarted", agent_id, "agent_id:" \o agent_id)
                    completed == RuntimeEvent("AgentCompleted", agent_id,
                                              "agent_id:" \o agent_id \o " tokens_used")
                IN  /\ found # <<>> /\ found[1].depends_on = <<>>
                    /\ IF res.delegation # <<>> /\ found[1].allow_delegation
                       THEN LET d == handle_delegation(marked, agents, dag, agent_id,
                                                       res.delegation[1], uuid)
                            IN  /\ workflows' = [workflows EXCEPT ![st.workflow_id].agents = d.agents]
                                /\ dag_store' = [dag_store EXCEPT ![r] = d.dag]
                                /\ uuid' = d.uuid
                                /\ IF d.res = "Ok"
                                   THEN /\ runtime_states' = [runtime_states EXCEPT ![r] = done]
                                        /\ events' = events \o <<started, completed>>
                                   ELSE /\ runtime_states' =
                                             [runtime_states EXCEPT
                                                 ![r] = fail_run(marked, agent_id, "Delegation error")]
                                        /\ events' = Append(events, started)
                       ELSE /\ runtime_states' = [runtime_states EXCEPT ![r] = done]
                            /\ events' = events \o <<started, completed>>
                            /\ UNCHANGED <<workflows, dag_store, uuid>>
    /\ UNCHANGED <<twinFrame, thought_signatures, start_reply>>

\* POST /runtime/{r}/stop
TwinStop(r) ==
    /\ r \in DOMAIN runtime_states
    /\ runtime_states[r].status = "running"
    /\ runtime_states' =
           [runtime_states EXCEPT ![r] = fail_run(@, "OPERATOR", "Manual Stop")]
    /\ UNCHANGED <<twinFrame, thought_signatures, start_reply, workflows, dag_store, events, uuid>>

TwinInit == Boot({FallbackPatterns}) /\ redis_client = FALSE

TwinNext ==
    \/ \E r \in RunIds : \E config \in TwinWorkflows : TwinStart(r, config)
    \/ \E r \in RunIds : \E res \in TwinResponses : TwinIterate(r, res)
    \/ \E r \in RunIds : TwinStop(r)

TwinSpec == TwinInit /\ [][TwinNext]_vars

\* the agent configs the scheduler and the context assembler of run r read
ConfigRead(r) == workflows[runtime_states[r].workflow_id].agents

\* the step is not one of run r: it leaves r's state and r's graph as they are
NotStepOf(r) ==
    /\ r \in DOMAIN runtime_states
    /\ runtime_states'[r] = runtime_states[r]
    /\ dag_store'[r] = dag_store[r]

\* C37: a start, a delegation or a status change of one run never changes the agent
\* configs another run reads, also when both runs carry the same workflow id.
C37_RunsIndependent ==
    [][\A r \in RunIds : NotStepOf(r) => ConfigRead(r)' = ConfigRead(r)]_vars

-----------------------------------------------------------------------------
(* Completion and termination *)

\* C38: whenever the run's status is completed, every node of its graph is in
\* completed_agents: no node is pending, active or failed.
C38_CompletedMeansAllDone ==
    (HasState /\ has_dag /\ St.status = "completed") =>
        Dag.nodes \subseteq Range(St.completed_agents)

\* a task that will take node id out of active_agents: a loop between the dispatch
\* of id and the handling of the worker's answer for it
Finishes(l, id) == loops[l].agent_id = id /\ loops[l].pc \in {"invoke", "result"}

\* the active nodes no task will finish
Orphans == {id \in Range(St.active_agents) : \A l \in LoopIds : ~Finishes(l, id)}

\* the pattern engine has nothing left to do
EngineIdle == todo = <<>> /\ \A i \in (rx + 1)..Len(events) : Matched(events[i]) = {}

\* C39: every scheduler loop terminates; in particular no loop of a running run sits
\* in the quiescence wait (running_count > 0: sleep, retry) for an active node that no
\* task will finish, with nothing left in the kernel that would change the run.
C39_NoOrphanWait ==
    \A l \in LoopIds :
        (loops[l].pc = "quiesce" /\ HasState /\ St.status = "running" /\ EngineIdle)
            => Orphans = {}

-----------------------------------------------------------------------------
(* Self-dependencies *)

\* some agent config lists its own id in depends_on
SelfListed(agents) ==
    \E i \in DOMAIN agents : VecContains(agents[i].depends_on, agents[i].id)

\* C40: after a delegation, Child or Sibling, with or without id collisions, whose
\* requested nodes do not name themselves, no agent config lists its own id in
\* depends_on, and the splice has not asked for an edge from a node to itself.
C40_NoSelfDependency ==
    [][\A l \in LoopIds :
          (Delegates(l) /\ ~SelfListed(Request(l).new_nodes)) =>
              /\ ~SelfListed(Agents')
              /\ Request(l).strategy = "Child" => NewIds(l) \cap Dependents(l) = {}]_vars

====
